---------------------------- MODULE Spec2Model ----------------------------
(***************************************************************************)
(* Generic entity repository, repository registry and error normaliser of  *)
(* the common service layer (repository-factory-model.service.js,          *)
(* app-error.js, error-handler.middleware.js), with the database service,  *)
(* the secrets service and the parties that answer a request               *)
(* (database.service.js, secrets.service.js, customer.controller.js).      *)
(*                                                                         *)
(* JavaScript values are tagged records, so that the dynamic type tests    *)
(* the code relies on (truthiness, "is a string", "is an array") are       *)
(* computed and not assumed.  A message is a sequence of words.            *)
(***************************************************************************)
EXTENDS Integers, Sequences, FiniteSets, TLC

VARIABLES
  nodeEnv,       \* process.env.NODE_ENV
  now,           \* the process clock, in milliseconds (Date.now())
  nextRef,       \* identity given to the next object that is constructed
  failure,       \* the value handed to the error normaliser
  normOut,       \* outcome of _normalizeError(failure)
  normAgain,     \* outcome of _normalizeError applied to that result
  normVia,       \* the category whose handler the normaliser ran
  npc,           \* position of the normaliser run
  repositories,  \* RepositoryFactory.repositories: entity name -> instance
  registryOut,   \* outcome of the last getRepository call
  handedOut,     \* <<name, instance>> of every getRepository since the last clearCache
  removed,       \* the instances clearCache has removed from the Map
  repo,          \* the GenericRepository whose operations are called
  table,         \* the storage rows of repo's entity: primary key -> row or null
  call,          \* the repository call in progress, or the last one made
  response,      \* what the boundary made of the error the call raised
  updates,       \* the overlapping updateById calls: caller -> call
  completed,     \* the callers whose storage write is done, in order of completion
  prisma,        \* DatabaseService.prisma: the client, 0 for null
  isConnected,   \* DatabaseService.isConnected
  connectionPromise, \* DatabaseService.connectionPromise: the attempt, 0 for null
  attempts,      \* the _createConnection calls made so far, in order
  disconnects,   \* the disconnect calls: caller -> position and client
  lastGet,       \* what the last getClient call received
  secretCache,   \* SecretsService.secretCache: secret name -> entry
  timers,        \* the cleanup timers _cacheSecret has scheduled
  secretCall,    \* the getSecret or getDatabaseCredentials call in progress, or the last one
  fetched,       \* secret name -> what the last fetch of it returned
  res,           \* the HTTP response of the request: headersSent and what was sent
  responders,    \* position of each party that can respond to the request
  transaction,   \* the createCustomer call and its transaction
  serialized     \* the toJSON call made and its result

normVars == <<failure, normOut, normAgain, normVia, npc>>
registryVars == <<repositories, registryOut, handedOut, removed>>
repoVars == <<repo, table, call, response>>
raceVars == <<updates, completed>>
dbVars == <<prisma, isConnected, connectionPromise, attempts, disconnects, lastGet>>
secretVars == <<secretCache, timers, secretCall, fetched>>
httpVars == <<res, responders>>
svcVars == <<dbVars, secretVars, httpVars, transaction, serialized>>
vars == <<nodeEnv, now, nextRef, normVars, registryVars, repoVars, raceVars, svcVars>>

----------------------------------------------------------------------------
(* JavaScript values *)

Undef == [t |-> "undefined"]
Null == [t |-> "null"]
Str(s) == [t |-> "string", s |-> s]
Num(n) == [t |-> "number", n |-> n]
Words(w) == [t |-> "string", w |-> w]
Arr(a) == [t |-> "array", a |-> a]
Obj(o) == [t |-> "object", o |-> o]

IsNullish(v) == v.t \in {"undefined", "null"}

\* ToBoolean of the language: undefined, null, "", 0 are falsy
Truthy(v) ==
  CASE v.t = "undefined" -> FALSE
    [] v.t = "null" -> FALSE
    [] v.t = "string" -> IF "s" \in DOMAIN v THEN v.s # "" ELSE v.w # <<>>
    [] v.t = "number" -> v.n # 0
    [] OTHER -> TRUE

\* a || b
OrElse(a, b) == IF Truthy(a) THEN a ELSE b

\* property read error.f : a missing property reads as undefined
Get(e, f) == IF f \in DOMAIN e THEN e[f] ELSE Undef

\* String.prototype.startsWith / includes on the text of a string
StartsWith(s, p) == Len(s) >= Len(p) /\ SubSeq(s, 1, Len(p)) = p
Includes(s, p) == \E i \in 1..(Len(s) - Len(p) + 1) : SubSeq(s, i, i + Len(p) - 1) = p

\* v.includes(p) for a string value: the text of a one-piece string, or some
\* word of a message
StrIncludes(v, p) ==
  IF "s" \in DOMAIN v THEN Includes(v.s, p)
  ELSE \E i \in 1..Len(v.w) : Includes(v.w[i], p)

\* Results of a test that may itself raise: "T", "F", or "X" (a TypeError)
\* v.startsWith(p): only a string has the method
CallStartsWith(v, p) ==
  IF v.t = "string" /\ "s" \in DOMAIN v
  THEN (IF StartsWith(v.s, p) THEN "T" ELSE "F")
  ELSE "X"

\* v?.includes(p): undefined for a nullish v, a TypeError for a non-string
OptIncludes(v, p) ==
  IF IsNullish(v) THEN "F"
  ELSE IF v.t \in {"string", "array"} THEN (IF v.t = "string" /\ StrIncludes(v, p) THEN "T" ELSE "F")
  ELSE "X"

Returned(v) == [kind |-> "return", value |-> v]
Thrown(e) == [kind |-> "throw", error |-> e]
TypeError == [t |-> "object", class |-> "TypeError"]

----------------------------------------------------------------------------
(* AppError (app-error.js) *)

_generateErrorCode(statusCode) ==
  CASE statusCode = 400 -> "BAD_REQUEST"
    [] statusCode = 401 -> "UNAUTHORIZED"
    [] statusCode = 403 -> "FORBIDDEN"
    [] statusCode = 404 -> "NOT_FOUND"
    [] statusCode = 409 -> "CONFLICT"
    [] statusCode = 422 -> "VALIDATION_ERROR"
    [] statusCode = 429 -> "TOO_MANY_REQUESTS"
    [] statusCode = 500 -> "INTERNAL_SERVER_ERROR"
    [] statusCode = 502 -> "BAD_GATEWAY"
    [] statusCode = 503 -> "SERVICE_UNAVAILABLE"
    [] statusCode = 504 -> "GATEWAY_TIMEOUT"
    [] OTHER -> "UNKNOWN_ERROR"

\* _categorizeError with the lower limits exclusive
_categorizeError_exclusive(statusCode) ==
  IF statusCode > 400 /\ statusCode < 500 THEN "CLIENT_ERROR"
  ELSE IF statusCode > 500 /\ statusCode < 600 THEN "SERVER_ERROR"
  ELSE "UNKNOWN"

_categorizeError(statusCode) ==
  IF statusCode >= 400 /\ statusCode < 500 THEN "CLIENT_ERROR"
  ELSE IF statusCode >= 500 /\ statusCode < 600 THEN "SERVER_ERROR"
  ELSE "UNKNOWN"

\* new AppError(message, statusCode, errorCode, isOperational, metadata);
\* errorCode = "" stands for a falsy argument (null).  The object's identity is
\* nextRef, its timestamp the clock.
AppError(message, statusCode, errorCode, isOperational, metadata) ==
  [t |-> "object",
   class |-> "AppError",
   ref |-> nextRef,
   name |-> Str("AppError"),
   message |-> message,
   statusCode |-> Num(statusCode),
   errorCode |-> IF errorCode = "" THEN _generateErrorCode(statusCode) ELSE errorCode,
   isOperational |-> isOperational,
   metadata |-> metadata,
   timestamp |-> now,
   requestId |-> OrElse(Get(metadata, "requestId"), Null),
   category |-> _categorizeError(statusCode)]

\* appError.toJSON(includeStack): the body of the response.  The stack
\* starts with the message of the error.
toJSON(e, includeStack) ==
  LET fields == [message |-> e.message, code |-> e.errorCode, statusCode |-> e.statusCode,
                 category |-> e.category, timestamp |-> e.timestamp, requestId |-> e.requestId]
      extra == (IF DOMAIN e.metadata # {} THEN {"metadata"} ELSE {})
                 \cup (IF includeStack /\ nodeEnv # "production" THEN {"stack"} ELSE {})
  IN [error |-> [f \in DOMAIN fields \cup extra |->
                   IF f = "metadata" THEN e.metadata
                   ELSE IF f = "stack" THEN e.message
                   ELSE fields[f]]]

\* error instanceof AppError
IsAppError(e) == e.t = "object" /\ "class" \in DOMAIN e /\ e.class = "AppError"

\* the words of a template argument: `${v}`
Interp(v) ==
  CASE v.t = "string" -> IF "s" \in DOMAIN v THEN <<v.s>> ELSE v.w
    [] v.t = "number" -> <<ToString(v.n)>>
    [] OTHER -> <<v.t>>

validationError(field, value, constraint) ==
  AppError(Words(<<"Validation", "failed", "for", "field">> \o Interp(field) \o <<":">> \o Interp(constraint)),
           422, "VALIDATION_ERROR", TRUE,
           [field |-> field, value |-> value, constraint |-> constraint])

notFound(resource, identifier) ==
  AppError(Words(Interp(resource) \o <<"with", "identifier">> \o Interp(identifier) \o <<"not", "found">>),
           404, "RESOURCE_NOT_FOUND", TRUE,
           [resource |-> resource, identifier |-> identifier])

\* originalError?.message, originalError?.code
databaseError(operation, originalError) ==
  AppError(Words(<<"Database", "error", "during">> \o operation),
           500, "DATABASE_ERROR", TRUE,
           [operation |-> operation,
            originalMessage |-> IF IsNullish(originalError) THEN Undef ELSE Get(originalError, "message"),
            originalCode |-> IF IsNullish(originalError) THEN Undef ELSE Get(originalError, "code")])

externalServiceError(service, operation, originalError) ==
  AppError(Words(<<"External", "service", "error:", service>> \o operation \o <<"failed">>),
           502, "EXTERNAL_SERVICE_ERROR", TRUE,
           [service |-> service,
            operation |-> operation,
            originalMessage |-> IF IsNullish(originalError) THEN Undef ELSE Get(originalError, "message"),
            originalCode |-> IF IsNullish(originalError) THEN Undef ELSE Get(originalError, "code")])

----------------------------------------------------------------------------
(* ErrorHandlerMiddleware (error-handler.middleware.js).  A detector yields *)
(* "T", "F" or "X" (it raised a TypeError); a handler yields an outcome.    *)
(* The property $metadata of a failure is the field awsMetadata.            *)

_isPrismaError(error) ==
  IF IsNullish(error) THEN "X"
  ELSE IF ~Truthy(Get(error, "code")) THEN "F"
  ELSE LET sw == CallStartsWith(Get(error, "code"), "P")
           inc == OptIncludes(Get(error, "name"), "Prisma")
       IN IF sw # "F" THEN sw
          ELSE IF inc # "F" THEN inc
          ELSE IF Truthy(Get(error, "clientVersion")) THEN "T" ELSE "F"

_isAWSError(error) ==
  IF Truthy(Get(error, "awsMetadata")) THEN "T"
  ELSE LET inc == OptIncludes(Get(error, "name"), "AWS")
       IN IF inc # "F" THEN inc
          ELSE IF Truthy(Get(error, "Code")) THEN "T" ELSE "F"

_isValidationError(error) ==
  IF Get(error, "name") = Str("ValidationError") THEN "T"
  ELSE IF Truthy(Get(error, "details")) THEN "T"
  ELSE IF Truthy(Get(error, "errors")) THEN "T"
  ELSE OptIncludes(Get(error, "message"), "validation")

_isHTTPError(error) ==
  IF Truthy(Get(error, "status")) \/ Truthy(Get(error, "statusCode")) \/ Get(error, "code") = Str("ECONNREFUSED")
  THEN "T" ELSE "F"

\* The words of the message vocabulary that are dotted-quad addresses
\* (those the pattern \b\d{1,3}(\.\d{1,3}){3}\b matches)
IPWords == {"10.0.0.7"}

\* One word of a database message after the three replacements
SanitizeWord(w) ==
  IF StartsWith(w, "password=") \/ StartsWith(w, "password:") THEN "password=[HIDDEN]"
  ELSE IF StartsWith(w, "token=") \/ StartsWith(w, "token:") THEN "token=[HIDDEN]"
  ELSE IF w \in IPWords THEN "[IP]"
  ELSE w

\* Outcome of _sanitizeDatabaseMessage(message): message.replace needs a string
_sanitizeDatabaseMessage(message) ==
  IF nodeEnv = "development" THEN Returned(message)
  ELSE IF message.t # "string" THEN Thrown(TypeError)
  ELSE Returned(Words([i \in 1..Len(message.w) |-> SanitizeWord(message.w[i])]))

PrismaErrorMap(code) ==
  CASE code = Str("P2002") -> [status |-> 409, code |-> "UNIQUE_CONSTRAINT_VIOLATION"]
    [] code = Str("P2025") -> [status |-> 404, code |-> "RECORD_NOT_FOUND"]
    [] code = Str("P2003") -> [status |-> 400, code |-> "FOREIGN_KEY_CONSTRAINT"]
    [] code = Str("P2011") -> [status |-> 400, code |-> "NULL_CONSTRAINT_VIOLATION"]
    [] code = Str("P1001") -> [status |-> 503, code |-> "DATABASE_UNREACHABLE"]
    [] code = Str("P1008") -> [status |-> 504, code |-> "DATABASE_TIMEOUT"]
    [] OTHER -> Undef

_handlePrismaError(error, requestId) ==
  LET mappedError == PrismaErrorMap(Get(error, "code"))
      msg == _sanitizeDatabaseMessage(Get(error, "message"))
  IN IF mappedError # Undef
     THEN IF msg.kind = "throw" THEN msg
          ELSE Returned(AppError(msg.value, mappedError.status, mappedError.code, TRUE,
                                 [requestId |-> requestId, originalCode |-> Get(error, "code")]))
     ELSE Returned(databaseError(<<"database", "operation">>, error))

AWSErrorMap(errorName) ==
  CASE errorName = Str("ResourceNotFoundException") -> [status |-> 404, code |-> "RESOURCE_NOT_FOUND"]
    [] errorName = Str("AccessDenied") -> [status |-> 403, code |-> "ACCESS_DENIED"]
    [] errorName = Str("InvalidParameterException") -> [status |-> 400, code |-> "INVALID_PARAMETER"]
    [] errorName = Str("ThrottlingException") -> [status |-> 429, code |-> "RATE_LIMITED"]
    [] errorName = Str("ServiceUnavailableException") -> [status |-> 503, code |-> "SERVICE_UNAVAILABLE"]
    [] OTHER -> Undef

_handleAWSError(error, requestId) ==
  LET errorName == OrElse(Get(error, "name"), Get(error, "Code"))
      mappedError == AWSErrorMap(errorName)
  IN IF mappedError # Undef
     THEN Returned(AppError(OrElse(Get(error, "message"), Words(<<"AWS", "service", "error">>)),
                            mappedError.status, mappedError.code, TRUE,
                            [requestId |-> requestId, service |-> "AWS", originalName |-> errorName]))
     ELSE Returned(externalServiceError("AWS", <<"unknown", "operation">>, error))

\* Array.prototype.join('.') over the strings of a path
RECURSIVE JoinDots(_)
JoinDots(a) ==
  IF a = <<>> THEN ""
  ELSE IF Len(a) = 1 THEN a[1]
  ELSE a[1] \o "." \o JoinDots(Tail(a))

\* v[0] : first element of an array, first character of a string
First(v) ==
  CASE v.t = "array" -> IF v.a = <<>> THEN Undef ELSE v.a[1]
    [] v.t = "string" -> Str("c")
    [] OTHER -> Undef

\* details[0].path?.join('.') : "X" when path has no join method
PathJoin(path) ==
  IF IsNullish(path) THEN Returned(Undef)
  ELSE IF path.t = "array" THEN Returned(Str(JoinDots(path.a)))
  ELSE Thrown(TypeError)

_handleValidationError(error, requestId) ==
  LET details == Get(error, "details")
      errors == Get(error, "errors")
      d0 == First(details)
      e0 == First(errors)
      joined == PathJoin(Get(d0, "path"))
  IN IF Truthy(details) /\ Truthy(d0)
     THEN IF joined.kind = "throw" THEN joined
          ELSE Returned(validationError(OrElse(joined.value, Str("unknown")), Str("invalid"),
                                        OrElse(Get(d0, "message"), Get(error, "message"))))
     ELSE IF Truthy(errors) /\ errors.t = "array"
     THEN Returned(validationError(
                     OrElse(IF IsNullish(e0) THEN Undef ELSE Get(e0, "field"),
                            OrElse(IF IsNullish(e0) THEN Undef ELSE Get(e0, "param"), Str("unknown"))),
                     Str("invalid"),
                     OrElse(IF IsNullish(e0) THEN Undef ELSE Get(e0, "message"), Get(error, "message"))))
     ELSE Returned(validationError(Str("unknown"), Str("invalid"), Get(error, "message")))

_handleHTTPError(error, requestId) ==
  LET status == OrElse(Get(error, "status"), OrElse(Get(error, "statusCode"), Num(500)))
  IN IF Get(error, "code") = Str("ECONNREFUSED")
     THEN Returned(AppError(Words(<<"External", "service", "unavailable">>), 503, "SERVICE_UNAVAILABLE", TRUE,
                            [requestId |-> requestId, originalCode |-> Get(error, "code")]))
     ELSE Returned(AppError(OrElse(Get(error, "message"), Words(<<"HTTP", "error">>)), status.n, "", TRUE,
                            [requestId |-> requestId]))

_handleUnknownError(error, requestId) ==
  Returned(AppError(IF nodeEnv = "development" THEN Get(error, "message") ELSE Words(<<"Internal", "server", "error">>),
                    500, "INTERNAL_SERVER_ERROR", FALSE,
                    [requestId |-> requestId, originalName |-> Get(error, "name")]))

\* The category whose handler _normalizeError runs, or "raised" when a
\* detector on the way raised
Classify(error) ==
  IF IsAppError(error) THEN "classified"
  ELSE IF _isPrismaError(error) # "F" THEN (IF _isPrismaError(error) = "T" THEN "storage" ELSE "raised")
  ELSE IF _isAWSError(error) # "F" THEN (IF _isAWSError(error) = "T" THEN "external" ELSE "raised")
  ELSE IF _isValidationError(error) # "F" THEN (IF _isValidationError(error) = "T" THEN "validation" ELSE "raised")
  ELSE IF _isHTTPError(error) = "T" THEN "transport"
  ELSE "fallback"

\* The normaliser without its instanceof test: a classified error falls
\* through the detectors to the fallback, which wraps it again
_normalizeError_rewrapping(error, requestId) ==
  CASE Classify(error) = "classified" -> _handleUnknownError(error, requestId)
    [] Classify(error) = "storage" -> _handlePrismaError(error, requestId)
    [] Classify(error) = "external" -> _handleAWSError(error, requestId)
    [] Classify(error) = "validation" -> _handleValidationError(error, requestId)
    [] Classify(error) = "transport" -> _handleHTTPError(error, requestId)
    [] Classify(error) = "fallback" -> _handleUnknownError(error, requestId)
    [] OTHER -> Thrown(TypeError)

_normalizeError(error, requestId) ==
  CASE Classify(error) = "classified" -> Returned(error)
    [] Classify(error) = "storage" -> _handlePrismaError(error, requestId)
    [] Classify(error) = "external" -> _handleAWSError(error, requestId)
    [] Classify(error) = "validation" -> _handleValidationError(error, requestId)
    [] Classify(error) = "transport" -> _handleHTTPError(error, requestId)
    [] Classify(error) = "fallback" -> _handleUnknownError(error, requestId)
    [] OTHER -> Thrown(TypeError)

----------------------------------------------------------------------------
(* The failures handed to the normaliser: every combination of the fields   *)
(* the detectors and handlers read, each over a few values, and the errors  *)
(* the AppError factories build.                                            *)

CodeVals == {Undef, Str("P2002"), Str("P9999"), Str("ECONNREFUSED"), Num(11000)}
NameVals == {Undef, Str("Error"), Str("ValidationError"), Str("PrismaClientKnownRequestError"), Str("ResourceNotFoundException")}
MessageVals == {Undef, Words(<<"Unique", "constraint", "failed", "at", "10.0.0.7", "password=hunter2">>), Words(<<"request", "validation", "failed">>)}
ClientVersionVals == {Undef, Str("5.7.0")}
AwsMetadataVals == {Undef, Obj([httpStatusCode |-> Num(400)])}
AwsCodeVals == {Undef, Str("AccessDenied")}
DetailsVals == {Undef, Arr(<<[t |-> "object", path |-> Arr(<<"user", "email">>), message |-> Words(<<"is", "required">>)]>>), Arr(<<[t |-> "object", path |-> Str("email")]>>)}
ErrorsVals == {Undef, Arr(<<[t |-> "object", param |-> Str("email")]>>), Obj([email |-> Str("invalid")])}
StatusVals == {Undef, Num(404)}
StatusCodeVals == {Undef, Num(502)}

ForeignFailures ==
  [t : {"object"}, code : CodeVals, name : NameVals, message : MessageVals,
   clientVersion : ClientVersionVals, awsMetadata : AwsMetadataVals, Code : AwsCodeVals,
   details : DetailsVals, errors : ErrorsVals, status : StatusVals, statusCode : StatusCodeVals]

\* An AppError built before the request reached the boundary
Earlier(e) == [e EXCEPT !.ref = 0, !.timestamp = 0]

ClassifiedFailures ==
  { Earlier(validationError(Str("id"), Undef, Words(<<"ID", "and", "client", "are", "required">>))),
    Earlier(notFound(Str("customer"), Num(2))),
    Earlier(databaseError(<<"create", "customer">>, [t |-> "object", code |-> Str("P2002"), message |-> Words(<<"Unique", "constraint", "failed">>)])),
    Earlier(externalServiceError("AWS", <<"unknown", "operation">>, Null)) }

RequestIds == {Str("req-1")}
NodeEnvs == {"development", "production", "test"}

\* No failure is being normalised
NormIdle ==
  /\ failure = Undef
  /\ normOut = Undef
  /\ normAgain = Undef
  /\ normVia = "none"
  /\ npc = "idle"

\* The registry as constructed: an empty Map
RegistryNew ==
  /\ repositories = [n \in {} |-> 0]
  /\ registryOut = Undef
  /\ handedOut = {}
  /\ removed = {}

\* No overlapping calls
RaceIdle ==
  /\ updates = <<>>
  /\ completed = <<>>

\* The database service as constructed
DatabaseNew ==
  /\ prisma = 0
  /\ isConnected = FALSE
  /\ connectionPromise = 0
  /\ attempts = <<>>
  /\ disconnects = <<>>
  /\ lastGet = Undef

\* The secrets service as constructed: an empty Map, no timer scheduled
SecretsNew ==
  /\ secretCache = [n \in {} |-> 0]
  /\ timers = {}
  /\ secretCall = [pc |-> "idle"]
  /\ fetched = [n \in {} |-> 0]

\* No request is being answered
ResponseIdle ==
  /\ res = [headersSent |-> FALSE, sent |-> <<>>]
  /\ responders = [r \in {} |-> 0]

\* No transaction runs and nothing is serialized
TransactionIdle == transaction = [pc |-> "idle"]

SerializedNone == serialized = Undef

ServicesIdle ==
  /\ DatabaseNew
  /\ SecretsNew
  /\ ResponseIdle
  /\ TransactionIdle
  /\ SerializedNone

\* No repository is in use
RepoIdle ==
  /\ repo = Undef
  /\ table = <<>>
  /\ call = [pc |-> "idle"]
  /\ response = Undef

\* The framework calls the error middleware with the value a route raised
\* or passed to next(); a falsy value never reaches it.
NormInit ==
  /\ nodeEnv \in NodeEnvs
  /\ now = 1
  /\ nextRef = 1
  /\ failure \in ForeignFailures \cup ClassifiedFailures
  /\ normOut = Undef
  /\ normAgain = Undef
  /\ normVia = "none"
  /\ npc = "raised"
  /\ RegistryNew
  /\ RepoIdle
  /\ RaceIdle
  /\ ServicesIdle

\* handle(): const appError = this._normalizeError(error, requestId)
Normalize ==
  /\ npc = "raised"
  /\ \E requestId \in RequestIds :
       /\ normOut' = _normalizeError(failure, requestId)
       /\ nextRef' = IF normOut'.kind = "return" /\ normOut'.value.ref = nextRef THEN nextRef + 1 ELSE nextRef
  /\ normVia' = Classify(failure)
  /\ npc' = "normalized"
  /\ UNCHANGED <<nodeEnv, now, failure, normAgain, registryVars, repoVars, raceVars, svcVars>>

\* the result of the normaliser handed to the normaliser again; a raised
\* TypeError leaves nothing to hand on
Renormalize ==
  /\ npc = "normalized"
  /\ \E requestId \in RequestIds :
       normAgain' = IF normOut.kind = "throw" THEN normOut ELSE _normalizeError(normOut.value, requestId)
  /\ npc' = "done"
  /\ UNCHANGED <<nodeEnv, now, nextRef, failure, normOut, normVia, registryVars, repoVars, raceVars, svcVars>>

NormNext == Normalize \/ Renormalize

SpecNorm == NormInit /\ [][NormNext]_vars

----------------------------------------------------------------------------
(* RepositoryFactory and GenericRepository's constructor                    *)
(* (repository-factory-model.service.js)                                    *)

MaxRefs == 4

EntityNames == {"customer", "account", "invoice"}

_getPrimaryKeyField(entityName) ==
  CASE entityName = "customer" -> "customerId"
    [] entityName = "account" -> "accountId"
    [] entityName = "user" -> "userId"
    [] entityName = "userHasAccount" -> "userHasAccountId"
    [] OTHER -> "id"

\* new GenericRepository(entityName)
GenericRepository(entityName) ==
  [t |-> "object",
   class |-> "GenericRepository",
   ref |-> nextRef,
   entityName |-> entityName,
   primaryKeyField |-> _getPrimaryKeyField(entityName)]

\* this.repositories.has(entityName)
Has(map, key) == key \in DOMAIN map

\* this.repositories.set(entityName, value)
MapSet(map, key, value) == [k \in DOMAIN map \cup {key} |-> IF k = key THEN value ELSE map[k]]

\* this.repositories.delete(entityName)
MapDelete(map, key) == [k \in DOMAIN map \ {key} |-> map[k]]

\* The Map of a registry that constructs a repository on every call
CacheAfterGet_uncached(entityName) ==
  MapSet(repositories, entityName, GenericRepository(entityName))

\* The Map after getRepository(entityName)
CacheAfterGet(entityName) ==
  IF Has(repositories, entityName) THEN repositories
  ELSE MapSet(repositories, entityName, GenericRepository(entityName))

\* getRepository(entityName); entityName = "" is rejected
getRepository(entityName) ==
  /\ nextRef <= MaxRefs
  /\ IF entityName = ""
     THEN /\ registryOut' = Thrown(validationError(Str("entityName"), Str(entityName), Words(<<"Entity", "name", "is", "required">>)))
          /\ UNCHANGED <<repositories, handedOut, removed>>
          /\ nextRef' = nextRef + 1
     ELSE /\ repositories' = CacheAfterGet(entityName)
          /\ registryOut' = Returned(repositories'[entityName])
          /\ handedOut' = handedOut \cup {<<entityName, repositories'[entityName]>>}
          /\ UNCHANGED removed
          /\ nextRef' = IF Has(repositories, entityName) THEN nextRef ELSE nextRef + 1
  /\ UNCHANGED <<nodeEnv, now, normVars, repoVars, raceVars, svcVars>>

\* clearCache that empties the Map whatever its argument
clearCache_everything(entityName) ==
  /\ repositories' = [n \in {} |-> 0]
  /\ handedOut' = {}
  /\ removed' = removed \cup {repositories[n] : n \in DOMAIN repositories}
  /\ registryOut' = Undef
  /\ UNCHANGED <<nodeEnv, now, nextRef, normVars, repoVars, raceVars, svcVars>>

\* clearCache(entityName): one entry; clearCache(): all of them
clearCache(entityName) ==
  /\ repositories' = IF entityName # "" THEN MapDelete(repositories, entityName) ELSE [n \in {} |-> 0]
  /\ handedOut' = {}
  /\ removed' = removed \cup {repositories[n] : n \in DOMAIN repositories \ DOMAIN repositories'}
  /\ registryOut' = Undef
  /\ UNCHANGED <<nodeEnv, now, nextRef, normVars, repoVars, raceVars, svcVars>>

RegistryInit ==
  /\ nodeEnv = "production"
  /\ now = 1
  /\ nextRef = 1
  /\ NormIdle
  /\ RegistryNew
  /\ RepoIdle
  /\ RaceIdle
  /\ ServicesIdle

RegistryNext ==
  \/ \E entityName \in EntityNames \cup {""} : getRepository(entityName)
  \/ \E entityName \in EntityNames \cup {""} : clearCache(entityName)

SpecRegistry == RegistryInit /\ [][RegistryNext]_vars

\* C4: between two clearCache calls, getRepository returns one instance per
\* entity name (the same object for the same name) and different instances
\* for different names.
C4_OneInstancePerName ==
  \A p, q \in handedOut : (p[1] = q[1]) <=> (p[2].ref = q[2].ref)

C4_Witness ==
  /\ Cardinality(handedOut) = 2
  /\ \E entityName \in EntityNames :
        /\ Has(repositories, entityName)
        /\ registryOut = Returned(repositories[entityName])
        /\ repositories[entityName].ref < nextRef - 1

\* The entries of the Map other than name are what they were
OthersKept(name) ==
  /\ DOMAIN repositories' \ {name} = DOMAIN repositories \ {name}
  /\ \A m \in DOMAIN repositories \ {name} : repositories'[m] = repositories[m]

\* C20: clearCache(name) removes the entry of name and leaves every other
\* entry as it was; clearCache() removes every entry; the getRepository
\* that follows the removal of an entry constructs and caches a new
\* instance; getRepository with an empty name fails with the validation
\* error and leaves the Map as it was.
C20_ClearCacheFrame ==
  [][/\ \A name \in EntityNames :
          clearCache(name) => (~Has(repositories', name) /\ OthersKept(name))
     /\ clearCache("") => DOMAIN repositories' = {}
     /\ \A name \in EntityNames :
          (getRepository(name) /\ ~Has(repositories, name)) =>
             /\ Has(repositories', name)
             /\ \A r \in removed : r.ref # repositories'[name].ref
             /\ \A m \in DOMAIN repositories : repositories[m].ref # repositories'[name].ref
             /\ registryOut' = Returned(repositories'[name])
             /\ OthersKept(name)
     /\ getRepository("") =>
          /\ repositories' = repositories
          /\ registryOut'.kind = "throw"
          /\ IsAppError(registryOut'.error)
          /\ registryOut'.error.statusCode = Num(422)]_vars

C20_Witness ==
  \E name \in DOMAIN repositories, kept \in DOMAIN repositories :
     /\ kept # name
     /\ \E r \in removed :
          /\ r.entityName = name
          /\ repositories[kept].ref < r.ref
          /\ r.ref < repositories[name].ref

----------------------------------------------------------------------------
(* Claims about the normaliser, checked under SpecNorm *)

\* C7: normalisation is idempotent.  An already-classified error comes back
\* as the same object, unchanged, and for every failure the outcome of
\* normalising the normaliser's result is the outcome of normalising once.
C7_NormalizeIdempotent ==
  /\ (npc # "raised" /\ IsAppError(failure)) => normOut = Returned(failure)
  /\ npc = "done" => normAgain = normOut

C7_Witness ==
  /\ npc = "done"
  /\ ~IsAppError(failure)
  /\ normOut.kind = "return"
  /\ normOut.value.errorCode = "UNIQUE_CONSTRAINT_VIOLATION"
  /\ normAgain = normOut

\* The detection rule of each source category, and the order the categories
\* are tried in
CategoryOrder == <<"classified", "storage", "external", "validation", "transport", "fallback">>

Matches(c, e) ==
  CASE c = "classified" -> IsAppError(e)
    [] c = "storage" -> _isPrismaError(e) = "T"
    [] c = "external" -> _isAWSError(e) = "T"
    [] c = "validation" -> _isValidationError(e) = "T"
    [] c = "transport" -> _isHTTPError(e) = "T"
    [] OTHER -> TRUE

FirstMatch(e) ==
  CategoryOrder[CHOOSE i \in 1..6 : Matches(CategoryOrder[i], e) /\ \A j \in 1..(i - 1) : ~Matches(CategoryOrder[j], e)]

MatchesSeveral(e) == Cardinality({i \in 1..5 : Matches(CategoryOrder[i], e)}) >= 2

\* C8: a failure that matches the detection rule of more than one category
\* is classified by the first matching category in the fixed order, and
\* that category's mapping produces the result.
C8_FirstMatchWins ==
  (npc # "raised" /\ MatchesSeveral(failure)) =>
     (normOut.kind = "return" /\ normVia = FirstMatch(failure))

\* C9: for every failure value the normaliser completes and returns one
\* Classified Error with a status code and an error code; it never raises.
C9_NormalizerNeverRaises ==
  npc # "raised" =>
     /\ normOut.kind = "return"
     /\ IsAppError(normOut.value)
     /\ normOut.value.statusCode.t = "number"
     /\ normOut.value.errorCode # ""

----------------------------------------------------------------------------
(* The normaliser on the failures of each source category: storage-engine  *)
(* errors over the codes of the table and others, external-service errors  *)
(* identified by envelope, name or Code, and transport errors over the     *)
(* statuses they carry.                                                     *)

RawMessage == Words(<<"Unique", "constraint", "failed", "at", "10.0.0.7", "password=hunter2">>)

StorageCodes == {"P2002", "P2025", "P2003", "P2011", "P1001", "P1008", "P2010", "P9999"}

StorageFailures ==
  [t : {"object"}, code : {Str(c) : c \in StorageCodes} \cup {Str("ECONNREFUSED")},
   name : {Undef, Str("PrismaClientKnownRequestError")}, message : {Undef, RawMessage},
   clientVersion : {Undef, Str("5.7.0")}]

ExternalNames ==
  {"ResourceNotFoundException", "AccessDenied", "InvalidParameterException", "ThrottlingException",
   "ServiceUnavailableException", "AWSSimulatedFailure", "Error"}

ExternalFailures ==
  [t : {"object"}, name : {Undef} \cup {Str(n) : n \in ExternalNames},
   Code : {Undef, Str("AccessDenied"), Str("ThrottlingException"), Str("NoSuchKey")},
   awsMetadata : AwsMetadataVals, message : {Undef, RawMessage}]

CarriedStatuses == {302, 400, 404, 499, 500, 503, 599, 600}

TransportFailures ==
  [t : {"object"}, code : {Undef, Str("ECONNREFUSED"), Str("ETIMEDOUT"), Num(11000)},
   status : {Undef} \cup {Num(n) : n \in CarriedStatuses}, statusCode : StatusCodeVals,
   message : {Undef, RawMessage}]

\* handle() is called with a failure of one of the three families
TableInit ==
  /\ nodeEnv \in NodeEnvs
  /\ now = 1
  /\ nextRef = 1
  /\ failure \in StorageFailures \cup ExternalFailures \cup TransportFailures
  /\ normOut = Undef
  /\ normAgain = Undef
  /\ normVia = "none"
  /\ npc = "raised"
  /\ RegistryNew
  /\ RepoIdle
  /\ RaceIdle
  /\ ServicesIdle

SpecTables == TableInit /\ [][NormNext]_vars

\* The status the claims give for each storage code, 0 for a code they
\* leave to the generic mapping
StorageStatus(code) ==
  CASE code = Str("P2002") -> 409
    [] code = Str("P2025") -> 404
    [] code = Str("P2003") -> 400
    [] code = Str("P2011") -> 400
    [] code = Str("P1001") -> 503
    [] code = Str("P1008") -> 504
    [] OTHER -> 0

\* C11: a storage-engine error that is not yet classified is mapped by its
\* code: P2002 to 409, P2025 to 404, P2003 to 400, P1001 to 503, P1008 to
\* 504 (and P2011 to 400); every other code gives 500, DATABASE_ERROR and a
\* message that embeds the operation name.
C11_StorageTable ==
  (npc # "raised" /\ ~IsAppError(failure) /\ Matches("storage", failure)) =>
     /\ normOut.kind = "return"
     /\ IsAppError(normOut.value)
     /\ IF StorageStatus(failure.code) # 0
        THEN normOut.value.statusCode = Num(StorageStatus(failure.code))
        ELSE /\ normOut.value.statusCode = Num(500)
             /\ normOut.value.errorCode = "DATABASE_ERROR"
             /\ normOut.value.message = Words(<<"Database", "error", "during">> \o normOut.value.metadata.operation)

\* The status the claims give for each kind of external-service error, 0
\* for a kind they leave to the generic mapping
ExternalStatus(kind) ==
  CASE kind = Str("ResourceNotFoundException") -> 404
    [] kind = Str("AccessDenied") -> 403
    [] kind = Str("InvalidParameterException") -> 400
    [] kind = Str("ThrottlingException") -> 429
    [] kind = Str("ServiceUnavailableException") -> 503
    [] OTHER -> 0

\* The kind an external-service error states, by its name or by its Code
ExternalKind(e) ==
  IF ExternalStatus(Get(e, "name")) # 0 THEN e.name
  ELSE IF ExternalStatus(Get(e, "Code")) # 0 THEN e.Code
  ELSE Undef

\* C12: an external-service error, identified by its metadata envelope, its
\* name or its Code field, is mapped by the kind it states: not-found to
\* 404, access-denied to 403, bad-parameter to 400, throttled to 429,
\* unavailable to 503; every other one gives 502, EXTERNAL_SERVICE_ERROR.
C12_ExternalTable ==
  (npc # "raised" /\ ~IsAppError(failure) /\ FirstMatch(failure) = "external") =>
     /\ normOut.kind = "return"
     /\ IsAppError(normOut.value)
     /\ IF ExternalKind(failure) # Undef
        THEN normOut.value.statusCode = Num(ExternalStatus(ExternalKind(failure)))
        ELSE /\ normOut.value.statusCode = Num(502)
             /\ normOut.value.errorCode = "EXTERNAL_SERVICE_ERROR"

\* The status a transport error carries: error.status, else error.statusCode
CarriedStatus(e) == IF Truthy(Get(e, "status")) THEN e.status ELSE Get(e, "statusCode")

\* C13: a transport error that no earlier category matches is classified as
\* 503, SERVICE_UNAVAILABLE when its code is ECONNREFUSED; otherwise the
\* result has the status the error carried and the error code derived from
\* that status.
C13_TransportMapping ==
  (npc # "raised" /\ ~IsAppError(failure) /\ FirstMatch(failure) = "transport") =>
     /\ normOut.kind = "return"
     /\ IsAppError(normOut.value)
     /\ IF Get(failure, "code") = Str("ECONNREFUSED")
        THEN /\ normOut.value.statusCode = Num(503)
             /\ normOut.value.errorCode = "SERVICE_UNAVAILABLE"
        ELSE /\ normOut.value.statusCode = CarriedStatus(failure)
             /\ normOut.value.errorCode = _generateErrorCode(CarriedStatus(failure).n)

\* C14: for a failure that is not yet classified, the result has
\* isOperational = false exactly when the failure matched no source category;
\* then it has status 500, INTERNAL_SERVER_ERROR and, outside development,
\* the generic message.  Every other classification has isOperational = true.
C14_OperationalUnlessFallback ==
  (npc # "raised" /\ ~IsAppError(failure)) =>
     /\ normOut.kind = "return"
     /\ IsAppError(normOut.value)
     /\ (normOut.value.isOperational = FALSE) <=> (FirstMatch(failure) = "fallback")
     /\ FirstMatch(failure) = "fallback" =>
          /\ normOut.value.statusCode = Num(500)
          /\ normOut.value.errorCode = "INTERNAL_SERVER_ERROR"
          /\ nodeEnv # "development" => normOut.value.message = Words(<<"Internal", "server", "error">>)

\* The category the claims give a status
CategoryOf(statusCode) ==
  IF 400 <= statusCode /\ statusCode < 500 THEN "CLIENT_ERROR"
  ELSE IF 500 <= statusCode /\ statusCode < 600 THEN "SERVER_ERROR"
  ELSE "UNKNOWN"

\* C15: the category of every Classified Error is the one its statusCode
\* gives: CLIENT_ERROR for 400..499, SERVER_ERROR for 500..599, UNKNOWN
\* otherwise, whatever the origin of the error.
C15_CategoryFromStatus ==
  /\ (npc # "raised" /\ normOut.kind = "return") =>
        normOut.value.category = CategoryOf(normOut.value.statusCode.n)
  /\ (npc = "done" /\ normAgain.kind = "return") =>
        normAgain.value.category = CategoryOf(normAgain.value.statusCode.n)

C15_Witness ==
  /\ npc = "done"
  /\ normVia = "transport"
  /\ normOut.kind = "return"
  /\ normOut.value.statusCode = Num(400)
  /\ normOut.value.category = "CLIENT_ERROR"

\* The metadata fields that hold a value taken from the failure
CarriedFields == {"originalMessage", "constraint", "value"}

\* The body of a response holds the raw message: as its message or as a
\* value of its metadata
Exposes(body, raw) ==
  \/ body.error.message = raw
  \/ /\ "metadata" \in DOMAIN body.error
     /\ \E f \in CarriedFields \cap DOMAIN body.error.metadata : body.error.metadata[f] = raw

\* C16: outside development, the message and the serialized form of the
\* Classified Error made from a storage, external-service or internal error
\* do not hold the raw message of that error.
C16_RawMessageHidden ==
  (/\ npc # "raised"
   /\ nodeEnv # "development"
   /\ ~IsAppError(failure)
   /\ FirstMatch(failure) \in {"storage", "external", "fallback"}
   /\ failure.message = RawMessage
   /\ normOut.kind = "return") =>
     ~Exposes(toJSON(normOut.value, nodeEnv = "development"), RawMessage)

----------------------------------------------------------------------------
(* The storage collaborator: the rows of one entity behind the delegate     *)
(* client[entityName], with the contract the repository relies on.         *)

MaxId == 2
MaxTime == 2
DefaultPage == 1
DefaultLimit == 50

Client == [t |-> "object", class |-> "PrismaClient"]

PrismaError(code) ==
  [t |-> "object",
   name |-> Str("PrismaClientKnownRequestError"),
   code |-> Str(code),
   message |-> Words(<<"Invalid", "invocation", "at", "10.0.0.7">>),
   clientVersion |-> Str("5.7.0")]

\* The row with primary key id, or null
RowAt(tb, id) == IF id.t = "number" /\ id.n \in DOMAIN tb THEN tb[id.n] ELSE Null

\* A row as the delegate returns it: its columns and its primary key
Entity(tb, k) == [t |-> "object", pk |-> Num(k), status |-> tb[k].status, updatedAt |-> tb[k].updatedAt]

\* { ...row, ...data }: data's columns over the row's
Assign(row, data) == [f \in DOMAIN row |-> IF f \in DOMAIN data THEN data[f] ELSE row[f]]

\* where: every column the filter names has the value it names
RowMatches(row, where) == \A f \in DOMAIN where \ {"t"} : row[f] = where[f]

\* The primary keys of the rows matching where, in the storage's order
Matching(tb, where) ==
  SelectSeq([i \in 1..Len(tb) |-> i], LAMBDA k : tb[k] # Null /\ RowMatches(tb[k], where))

Min(a, b) == IF a <= b THEN a ELSE b

\* One request executed on the rows tb: the rows after it and its outcome
Execute(tb, rq) ==
  CASE rq.method = "findUnique" ->
         [table |-> tb,
          out |-> Returned(IF RowAt(tb, rq.where.value) = Null THEN Null ELSE Entity(tb, rq.where.value.n))]
    [] rq.method = "create" ->
         IF RowAt(tb, rq.data.pk) # Null
         THEN [table |-> tb, out |-> Thrown(PrismaError("P2002"))]
         ELSE LET k == rq.data.pk.n
                  row == [t |-> "object", status |-> rq.data.status, updatedAt |-> Num(now)]
                  tb2 == [tb EXCEPT ![k] = row]
              IN [table |-> tb2, out |-> Returned(Entity(tb2, k))]
    [] rq.method = "update" ->
         IF RowAt(tb, rq.where.value) = Null
         THEN [table |-> tb, out |-> Thrown(PrismaError("P2025"))]
         ELSE LET k == rq.where.value.n
                  tb2 == [tb EXCEPT ![k] = Assign(tb[k], rq.data)]
              IN [table |-> tb2, out |-> Returned(Entity(tb2, k))]
    [] rq.method = "delete" ->
         IF RowAt(tb, rq.where.value) = Null
         THEN [table |-> tb, out |-> Thrown(PrismaError("P2025"))]
         ELSE LET k == rq.where.value.n
              IN [table |-> [tb EXCEPT ![k] = Null], out |-> Returned(Entity(tb, k))]
    [] rq.method = "findMany" ->
         LET keys == Matching(tb, rq.where)
             window == SubSeq(keys, rq.skip + 1, Min(rq.skip + rq.take, Len(keys)))
         IN [table |-> tb, out |-> Returned(Arr([i \in 1..Len(window) |-> Entity(tb, window[i])]))]
    [] rq.method = "count" ->
         [table |-> tb, out |-> Returned(Num(Len(Matching(tb, rq.where))))]
    [] rq.method = "queryRawUnsafe" ->
         IF rq.parameters # rq.placeholders
         THEN [table |-> tb, out |-> Thrown(PrismaError("P2010"))]
         ELSE [table |-> tb, out |-> Returned(Arr(<<>>))]

\* The request answered with a fault of the storage itself
Faulted(tb, code) == [table |-> tb, out |-> Thrown(PrismaError(code))]

----------------------------------------------------------------------------
(* GenericRepository (repository-factory-model.service.js) and the tier    *)
(* queries of CustomerModel (customer.model.js).  An operation starts with *)
(* its validation and the storage requests it issues (the call is pending  *)
(* while the storage works) and ends when the storage has answered.        *)

\* { [this.primaryKeyField]: id }
WhereClause(id) == [field |-> repo.primaryKeyField, value |-> id]

\* { updatedAt: new Date(), ...data }: the spread last, so that the caller's
\* timestamp would win
StampedData_callerWins(data) ==
  [f \in DOMAIN data \cup {"updatedAt"} |-> IF f \in DOMAIN data THEN data[f] ELSE Num(now)]

\* { ...data, updatedAt: new Date() }
StampedData(data) ==
  [f \in DOMAIN data \cup {"updatedAt"} |-> IF f = "updatedAt" THEN Num(now) ELSE data[f]]

\* The destructuring defaults of findAll: a default replaces undefined only
PageOf(options) == IF Get(options, "page") = Undef THEN Num(DefaultPage) ELSE options.page
LimitOf(options) == IF Get(options, "limit") = Undef THEN Num(DefaultLimit) ELSE options.limit
WhereOf(options) == IF Get(options, "where") = Undef THEN [t |-> "object"] ELSE options.where

\* Math.ceil(a / b) for a >= 0, b > 0
CeilDiv(a, b) == (a + b - 1) \div b

\* The value findAll would return with Math.floor in place of Math.ceil
PaginationResult_floor(options, entities, totalCount) ==
  [t |-> "object",
   data |-> entities,
   pagination |-> [page |-> PageOf(options).n,
                   limit |-> LimitOf(options).n,
                   totalCount |-> totalCount.n,
                   totalPages |-> totalCount.n \div LimitOf(options).n,
                   hasNext |-> PageOf(options).n * LimitOf(options).n < totalCount.n,
                   hasPrev |-> PageOf(options).n > 1]]

\* The value findAll returns
PaginationResult(options, entities, totalCount) ==
  [t |-> "object",
   data |-> entities,
   pagination |-> [page |-> PageOf(options).n,
                   limit |-> LimitOf(options).n,
                   totalCount |-> totalCount.n,
                   totalPages |-> CeilDiv(totalCount.n, LimitOf(options).n),
                   hasNext |-> PageOf(options).n * LimitOf(options).n < totalCount.n,
                   hasPrev |-> PageOf(options).n > 1]]

\* Number of $n placeholders of each SQL_QUERIES text, and the number of
\* parameters the tier query binds to it
Placeholders(relation, variant) ==
  CASE relation = "account" /\ variant = "header" -> 4
    [] relation = "account" /\ variant = "summary" -> 4
    [] relation = "account" /\ variant = "detail" -> 5
    [] relation = "customer" /\ variant = "header" -> 3
    [] relation = "customer" /\ variant = "summary" -> 3
    [] relation = "customer" /\ variant = "detail" -> 2

Parameters(relation, variant) ==
  IF relation = "account" THEN (IF variant = "header" THEN 4 ELSE 5) ELSE 3

\* The record of a call: its operation and arguments, the clock when it was
\* made (at), the storage requests it issued and their results, the rows
\* when it was made (before), the error the storage raised (raised) and
\* the call's outcome.
\* The call rejected by its validation: no storage request is issued
Rejected(op, args, error) ==
  [pc |-> "done", op |-> op, args |-> args, at |-> now, requests |-> <<>>, issued |-> 0,
   results |-> <<>>, before |-> table, raced |-> FALSE, raised |-> Undef, outcome |-> Thrown(error)]

\* The call waiting for the storage to answer the requests it issued
Awaiting(op, args, requests) ==
  [pc |-> "pending", op |-> op, args |-> args, at |-> now, requests |-> requests, issued |-> Len(requests),
   results |-> [i \in 1..Len(requests) |-> Undef], before |-> table, raced |-> FALSE, raised |-> Undef,
   outcome |-> Undef]

CanCall == call.pc = "idle"

Begin(c) ==
  /\ CanCall
  /\ call' = c
  /\ response' = Undef
  /\ UNCHANGED <<nodeEnv, now, nextRef, normVars, registryVars, repo, table, raceVars, svcVars>>

\* findById without its validation: the request goes to the storage whatever
\* the arguments
findById_unvalidated(id, client, requestId) ==
  Begin(Awaiting("findById", [id |-> id, client |-> client, requestId |-> requestId],
                 <<[method |-> "findUnique", where |-> WhereClause(id)]>>))

findById(id, client, requestId) ==
  Begin(IF ~Truthy(id) \/ ~Truthy(client)
        THEN Rejected("findById", [id |-> id, client |-> client, requestId |-> requestId],
                      validationError(Str("id"), id, Words(<<"ID", "and", "client", "are", "required">>)))
        ELSE Awaiting("findById", [id |-> id, client |-> client, requestId |-> requestId],
                      <<[method |-> "findUnique", where |-> WhereClause(id)]>>))

create(data, client, requestId) ==
  Begin(IF ~Truthy(data) \/ ~Truthy(client)
        THEN Rejected("create", [data |-> data, client |-> client, requestId |-> requestId],
                      validationError(Str("data"), data, Words(<<"Data", "and", "client", "are", "required">>)))
        ELSE Awaiting("create", [data |-> data, client |-> client, requestId |-> requestId],
                      <<[method |-> "create", data |-> data]>>))

updateById(id, data, client, requestId) ==
  Begin(IF ~Truthy(id) \/ ~Truthy(data) \/ ~Truthy(client)
        THEN Rejected("updateById", [id |-> id, data |-> data, client |-> client, requestId |-> requestId],
                      validationError(Str("updateData"), data, Words(<<"ID,", "data,", "and", "client", "are", "required">>)))
        ELSE Awaiting("updateById", [id |-> id, data |-> data, client |-> client, requestId |-> requestId],
                      <<[method |-> "update", where |-> WhereClause(id), data |-> StampedData(data)]>>))

deleteById(id, client, requestId) ==
  Begin(IF ~Truthy(id) \/ ~Truthy(client)
        THEN Rejected("deleteById", [id |-> id, client |-> client, requestId |-> requestId],
                      validationError(Str("id"), id, Words(<<"ID", "and", "client", "are", "required">>)))
        ELSE Awaiting("deleteById", [id |-> id, client |-> client, requestId |-> requestId],
                      <<[method |-> "delete", where |-> WhereClause(id)]>>))

findAll(options, client, requestId) ==
  Begin(IF ~Truthy(client)
        THEN Rejected("findAll", [options |-> options, client |-> client, requestId |-> requestId],
                      validationError(Str("client"), client, Words(<<"Prisma", "client", "is", "required">>)))
        ELSE Awaiting("findAll", [options |-> options, client |-> client, requestId |-> requestId],
                      <<[method |-> "findMany", where |-> WhereOf(options),
                         skip |-> (PageOf(options).n - 1) * LimitOf(options).n, take |-> LimitOf(options).n],
                        [method |-> "count", where |-> WhereOf(options)]>>))

count(where, client, requestId) ==
  Begin(IF ~Truthy(client)
        THEN Rejected("count", [where |-> where, client |-> client, requestId |-> requestId],
                      validationError(Str("client"), client, Words(<<"Prisma", "client", "is", "required">>)))
        ELSE Awaiting("count", [where |-> where, client |-> client, requestId |-> requestId],
                      <<[method |-> "count", where |-> IF where = Undef THEN [t |-> "object"] ELSE where]>>))

\* CustomerModel._executeAccountQuery / _executeCustomerQuery
tierQuery(relation, variant, parentId, client, requestId) ==
  Begin(IF ~Truthy(parentId) \/ ~Truthy(client)
        THEN Rejected("tierQuery", [relation |-> relation, variant |-> variant, id |-> parentId, client |-> client, requestId |-> requestId],
                      validationError(Str(relation \o "Id"), parentId,
                                      Words(<<IF relation = "account" THEN "Account" ELSE "Customer", "ID", "and", "client", "are", "required">>)))
        ELSE Awaiting("tierQuery", [relation |-> relation, variant |-> variant, id |-> parentId, client |-> client, requestId |-> requestId],
                      <<[method |-> "queryRawUnsafe", placeholders |-> Placeholders(relation, variant),
                         parameters |-> Parameters(relation, variant)]>>))

\* The catch block of each operation: the error it raises for a storage error
findById_catch(c, error) == databaseError(<<"find", repo.entityName, "by", "ID">>, error)

create_catch(c, error) == databaseError(<<"create", repo.entityName>>, error)

\* The catch block of updateById without its test of the storage's code
updateById_catch_generic(c, error) == databaseError(<<"update", repo.entityName>>, error)

updateById_catch(c, error) ==
  IF Get(error, "code") = Str("P2025") THEN notFound(Str(repo.entityName), c.args.id)
  ELSE databaseError(<<"update", repo.entityName>>, error)

deleteById_catch(c, error) ==
  IF Get(error, "code") = Str("P2025") THEN notFound(Str(repo.entityName), c.args.id)
  ELSE databaseError(<<"delete", repo.entityName>>, error)

findAll_catch(c, error) == databaseError(<<"find", "all", repo.entityName>>, error)

count_catch(c, error) == databaseError(<<"count", repo.entityName>>, error)

\* The catch block of a tier query without the tier and relation in the
\* operation it names
tierQuery_catch_untagged(c, error) == databaseError(<<"database", "operation">>, error)

tierQuery_catch(c, error) == databaseError(<<"find", "users", "by", c.args.relation, c.args.variant>>, error)

Catch(c, error) ==
  CASE c.op = "findById" -> findById_catch(c, error)
    [] c.op = "create" -> create_catch(c, error)
    [] c.op = "updateById" -> updateById_catch(c, error)
    [] c.op = "deleteById" -> deleteById_catch(c, error)
    [] c.op = "findAll" -> findAll_catch(c, error)
    [] c.op = "count" -> count_catch(c, error)
    [] c.op = "tierQuery" -> tierQuery_catch(c, error)

\* The operations returning `entity || {}` in place of the storage's result
Return_orEmptyObject(c, results) ==
  IF c.op = "findAll" THEN PaginationResult(c.args.options, results[1], results[2])
  ELSE OrElse(results[1], [t |-> "object"])

\* What the operation returns once every request has its result
Return(c, results) ==
  IF c.op = "findAll" THEN PaginationResult(c.args.options, results[1], results[2])
  ELSE results[1]

\* The storage answers request i of the pending call: with the request's
\* result, or with a fault of its own.  A rejected request ends the call in
\* its catch block (Promise.all rejects with the first rejection); the
\* last result ends it with its return value.
StorageAnswers(i, fault) ==
  /\ call.pc = "pending"
  /\ i \in 1..Len(call.requests)
  /\ call.results[i] = Undef
  /\ LET ex == IF fault = "" THEN Execute(table, call.requests[i]) ELSE Faulted(table, fault)
         results == [call.results EXCEPT ![i] = ex.out.value]
     IN /\ table' = ex.table
        /\ call' = IF ex.out.kind = "throw"
                   THEN [call EXCEPT !.pc = "done", !.raised = ex.out.error, !.outcome = Thrown(Catch(call, ex.out.error))]
                   ELSE IF \A j \in 1..Len(results) : results[j] # Undef
                   THEN [call EXCEPT !.pc = "done", !.results = results, !.outcome = Returned(Return(call, results))]
                   ELSE [call EXCEPT !.results = results]
  /\ UNCHANGED <<nodeEnv, now, nextRef, normVars, registryVars, repo, response, raceVars, svcVars>>

\* The clock advances
Tick ==
  /\ now < MaxTime
  /\ now' = now + 1
  /\ UNCHANGED <<nodeEnv, nextRef, normVars, registryVars, repoVars, raceVars, svcVars>>

\* The error the call raised reaches the boundary, which normalises it
Boundary ==
  /\ call.pc = "done"
  /\ call.outcome.kind = "throw"
  /\ response = Undef
  /\ response' = _normalizeError(call.outcome.error, call.args.requestId)
  /\ UNCHANGED <<nodeEnv, now, nextRef, normVars, registryVars, repo, table, call, raceVars, svcVars>>

\* The caller has taken the outcome of the call; the next call can start
Finish ==
  /\ call.pc = "done"
  /\ call' = [pc |-> "idle"]
  /\ response' = Undef
  /\ UNCHANGED <<nodeEnv, now, nextRef, normVars, registryVars, repo, table, raceVars, svcVars>>

Statuses == {Str("ACT"), Str("INACTIVE")}
RepoEntities == {"customer", "invoice"}
IdArgs == {Undef, Num(0)} \cup {Num(k) : k \in 1..MaxId}
ClientArgs == {Undef, Client}
StorageFaults == {"", "P1001"}
UpdateArgs == {Undef, [t |-> "object", status |-> Str("INACTIVE")], [t |-> "object", status |-> Str("ACT"), updatedAt |-> Num(0)]}
CreateArgs == {Undef} \cup {[t |-> "object", pk |-> Num(k), status |-> Str("ACT")] : k \in 1..MaxId}
WhereArgs == {Undef, [t |-> "object", status |-> Str("ACT")]}
OptionArgs == [t : {"object"}, page : {Undef, Num(1), Num(2)}, limit : {Undef, Num(1)}, where : WhereArgs]
Relations == {"account", "customer"}
Variants == {"header", "summary", "detail"}

\* A repository for one entity, the table of that entity with rows written
\* at or before the present, and no call made yet
RepoInit ==
  /\ nodeEnv = "production"
  /\ now = 1
  /\ nextRef = 1
  /\ NormIdle
  /\ RegistryNew
  /\ repo \in {GenericRepository(e) : e \in RepoEntities}
  /\ table \in [1..MaxId -> {Null} \cup [t : {"object"}, status : Statuses, updatedAt : {Num(0), Num(1)}]]
  /\ call = [pc |-> "idle"]
  /\ response = Undef
  /\ RaceIdle
  /\ ServicesIdle

RepoNext ==
  \/ \E id \in IdArgs, client \in ClientArgs, requestId \in RequestIds : findById(id, client, requestId)
  \/ \E data \in CreateArgs, client \in ClientArgs, requestId \in RequestIds : create(data, client, requestId)
  \/ \E id \in IdArgs, data \in UpdateArgs, client \in ClientArgs, requestId \in RequestIds : updateById(id, data, client, requestId)
  \/ \E id \in IdArgs, client \in ClientArgs, requestId \in RequestIds : deleteById(id, client, requestId)
  \/ \E options \in OptionArgs, client \in ClientArgs, requestId \in RequestIds : findAll(options, client, requestId)
  \/ \E where \in WhereArgs, client \in ClientArgs, requestId \in RequestIds : count(where, client, requestId)
  \/ \E relation \in Relations, variant \in Variants, id \in IdArgs, client \in ClientArgs, requestId \in RequestIds : tierQuery(relation, variant, id, client, requestId)
  \/ \E i \in 1..2, fault \in StorageFaults : StorageAnswers(i, fault)
  \/ Tick
  \/ Boundary
  \/ Finish

SpecRepo == RepoInit /\ [][RepoNext]_vars

----------------------------------------------------------------------------
(* Claims about the repository operations, checked under SpecRepo *)

\* C1: when the storage reports that no row matches the id (code P2025),
\* updateById and deleteById fail with the NotFound error, status 404, whose
\* metadata names the entity and the id, and not with the generic database
\* error (500).
C1_MissingRowIsNotFound ==
  (/\ call.pc = "done"
   /\ call.op \in {"updateById", "deleteById"}
   /\ Get(call.raised, "code") = Str("P2025")) =>
     /\ call.outcome.kind = "throw"
     /\ IsAppError(call.outcome.error)
     /\ call.outcome.error.statusCode = Num(404)
     /\ call.outcome.error.errorCode = "RESOURCE_NOT_FOUND"
     /\ call.outcome.error.errorCode # "DATABASE_ERROR"
     /\ call.outcome.error.metadata.resource = Str(repo.entityName)
     /\ call.outcome.error.metadata.identifier = call.args.id

C1_Witness ==
  /\ call.pc = "done"
  /\ call.op = "updateById"
  /\ Truthy(call.args.id) /\ Truthy(call.args.data) /\ Truthy(call.args.client)
  /\ RowAt(call.before, call.args.id) = Null
  /\ Get(call.raised, "code") = Str("P2025")
  /\ call.outcome.kind = "throw"
  /\ call.outcome.error.statusCode = Num(404)

Absent(c) ==
  \/ IsNullish(c.args.client)
  \/ c.op \in {"findById", "updateById", "deleteById", "tierQuery"} /\ IsNullish(c.args.id)
  \/ c.op \in {"create", "updateById"} /\ IsNullish(c.args.data)

\* C5: every repository operation and every tier query called without its
\* handle, or without the id or the data it requires, fails with the
\* validation error (status 422) and issues no storage request: the call
\* is never pending and the rows are untouched.
C5_AbsentArgumentRejected ==
  (call.pc # "idle" /\ Absent(call)) =>
     /\ call.pc = "done"
     /\ call.outcome.kind = "throw"
     /\ IsAppError(call.outcome.error)
     /\ call.outcome.error.statusCode = Num(422)
     /\ call.outcome.error.errorCode = "VALIDATION_ERROR"
     /\ call.issued = 0
     /\ call.requests = <<>>
     /\ table = call.before

C5_Witness ==
  /\ call.pc = "done"
  /\ call.op = "tierQuery"
  /\ call.args.client = Undef
  /\ call.args.id # Undef
  /\ call.outcome.kind = "throw"
  /\ call.outcome.error.statusCode = Num(422)
  /\ call.issued = 0

\* What C6 says of the data written and of the record returned, but for its
\* last clause
StampedAtCall(c) ==
  /\ \A f \in DOMAIN c.args.data \ {"updatedAt"} : c.requests[1].data[f] = c.args.data[f]
  /\ c.requests[1].data.updatedAt = Num(c.at)
  /\ (c.pc = "done" /\ c.outcome.kind = "return") =>
        /\ c.outcome.value.updatedAt = Num(c.at)
        /\ \A f \in DOMAIN c.args.data \ {"t", "updatedAt"} : c.outcome.value[f] = c.args.data[f]

\* C6 (as amended): the data updateById hands to the storage holds every
\* field of the caller's data and a modification timestamp equal to the
\* time of the call, whatever timestamp the caller's data holds; the record
\* returned carries that timestamp, which is later than the prior one
\* whenever the prior one is earlier than the time of the call.
C6_StampIsTimeOfCall ==
  (call.pc # "idle" /\ call.op = "updateById" /\ call.issued = 1) =>
     /\ StampedAtCall(call)
     /\ (/\ call.pc = "done"
         /\ call.outcome.kind = "return"
         /\ RowAt(call.before, call.args.id).updatedAt.n < call.at) =>
           call.outcome.value.updatedAt.n > RowAt(call.before, call.args.id).updatedAt.n

C6_Witness ==
  /\ call.pc = "done"
  /\ call.op = "updateById"
  /\ call.outcome.kind = "return"
  /\ Get(call.args.data, "updatedAt") = Num(0)
  /\ RowAt(call.before, call.args.id).updatedAt = Num(1)
  /\ call.at = 2
  /\ call.outcome.value.updatedAt = Num(2)
  /\ call.outcome.value.status = call.args.data.status

\* C6 (as stated): as above, and on an existing row the timestamp of the
\* record returned is later than the prior one.
C6_StampIsLaterThanPrior ==
  (call.pc # "idle" /\ call.op = "updateById" /\ call.issued = 1) =>
     /\ StampedAtCall(call)
     /\ (call.pc = "done" /\ call.outcome.kind = "return") =>
           call.outcome.value.updatedAt.n > RowAt(call.before, call.args.id).updatedAt.n

\* C10: when the storage raises the unique-constraint violation (P2002)
\* during create and the error create raises is normalised, the result is
\* the Classified Error with status 409 and code UNIQUE_CONSTRAINT_VIOLATION.
C10_UniqueViolationIs409 ==
  (/\ call.pc = "done"
   /\ call.op = "create"
   /\ Get(call.raised, "code") = Str("P2002")
   /\ response # Undef) =>
     /\ response.kind = "return"
     /\ response.value.statusCode = Num(409)
     /\ response.value.errorCode = "UNIQUE_CONSTRAINT_VIOLATION"

\* The operation name the error of a call is to carry
OperationName(c) ==
  CASE c.op = "findById" -> <<"find", repo.entityName, "by", "ID">>
    [] c.op = "create" -> <<"create", repo.entityName>>
    [] c.op = "updateById" -> <<"update", repo.entityName>>
    [] c.op = "deleteById" -> <<"delete", repo.entityName>>
    [] c.op = "findAll" -> <<"find", "all", repo.entityName>>
    [] c.op = "count" -> <<"count", repo.entityName>>
    [] c.op = "tierQuery" -> <<"find", "users", "by", c.args.relation, c.args.variant>>

\* The error of the call is a Classified Error whose metadata names the
\* operation, and with it the entity or the tier and relation
NamesOperation(c) ==
  /\ c.outcome.kind = "throw"
  /\ IsAppError(c.outcome.error)
  /\ "operation" \in DOMAIN c.outcome.error.metadata
  /\ c.outcome.error.metadata.operation = OperationName(c)

\* The error of the call is the NotFound error naming the entity and the id
NamesEntityAndId(c) ==
  /\ c.outcome.kind = "throw"
  /\ IsAppError(c.outcome.error)
  /\ c.outcome.error.errorCode = "RESOURCE_NOT_FOUND"
  /\ c.outcome.error.metadata.resource = Str(repo.entityName)
  /\ c.outcome.error.metadata.identifier = c.args.id

----------------------------------------------------------------------------
(* The repository operations with a logging sink that can fail.  The call  *)
(* of logDatabaseOperation stands inside the try block, after the await;   *)
(* the call of this.logger.error stands in the catch block, before the     *)
(* throw of the database error.                                             *)

\* The error a failing sink raises
LogError == [t |-> "object", name |-> Str("Error"), message |-> Words(<<"write", "EPIPE">>)]

\* The catch block reaches this.logger.error: updateById and deleteById
\* raise NotFound before it
LogsOnCatch(c, error) ==
  ~(c.op \in {"updateById", "deleteById"} /\ Get(error, "code") = Str("P2025"))

\* The catch block run on error, the sink of this.logger.error failing or not
Caught(c, error, sinkFails) ==
  IF sinkFails /\ LogsOnCatch(c, error) THEN Thrown(LogError) ELSE Thrown(Catch(c, error))

\* The storage answers request i of the pending call, and the rest of the
\* operation runs: a rejected request ends the call in its catch block; the
\* last result is followed by logDatabaseOperation, whose failure is caught
\* by the same catch block.
StorageAnswersLogged(i, fault, debugFails, errorFails) ==
  /\ call.pc = "pending"
  /\ i \in 1..Len(call.requests)
  /\ call.results[i] = Undef
  /\ LET ex == IF fault = "" THEN Execute(table, call.requests[i]) ELSE Faulted(table, fault)
         results == [call.results EXCEPT ![i] = ex.out.value]
     IN /\ table' = ex.table
        /\ call' = IF ex.out.kind = "throw"
                   THEN [call EXCEPT !.pc = "done", !.raised = ex.out.error,
                                     !.outcome = Caught(call, ex.out.error, errorFails)]
                   ELSE IF \A j \in 1..Len(results) : results[j] # Undef
                   THEN [call EXCEPT !.pc = "done", !.results = results,
                                     !.outcome = IF debugFails THEN Caught(call, LogError, errorFails)
                                                 ELSE Returned(Return(call, results))]
                   ELSE [call EXCEPT !.results = results]
  /\ UNCHANGED <<nodeEnv, now, nextRef, normVars, registryVars, repo, response, raceVars, svcVars>>

LogNext ==
  \/ \E id \in 1..MaxId, requestId \in RequestIds : findById(Num(id), Client, requestId)
  \/ \E data \in CreateArgs \ {Undef}, requestId \in RequestIds : create(data, Client, requestId)
  \/ \E id \in 1..MaxId, data \in UpdateArgs \ {Undef}, requestId \in RequestIds : updateById(Num(id), data, Client, requestId)
  \/ \E id \in 1..MaxId, requestId \in RequestIds : deleteById(Num(id), Client, requestId)
  \/ \E options \in OptionArgs, requestId \in RequestIds : findAll(options, Client, requestId)
  \/ \E where \in WhereArgs, requestId \in RequestIds : count(where, Client, requestId)
  \/ \E relation \in Relations, variant \in Variants, id \in 1..MaxId, requestId \in RequestIds :
       tierQuery(relation, variant, Num(id), Client, requestId)
  \/ \E i \in 1..2, fault \in StorageFaults, debugFails \in BOOLEAN, errorFails \in BOOLEAN :
       StorageAnswersLogged(i, fault, debugFails, errorFails)
  \/ Finish

SpecLog == RepoInit /\ [][LogNext]_vars

\* C17: a failure of the logging sink does not change the outcome of a
\* repository operation: when the storage answered every request, the
\* operation returns the storage's result; when the storage raised, the
\* error of the operation is the one for the storage's error.
C17_LoggingNeverMasksOutcome ==
  (call.pc = "done" /\ call.issued > 0) =>
     IF call.raised = Undef
     THEN call.outcome = Returned(Return(call, call.results))
     ELSE call.outcome = Thrown(Catch(call, call.raised))

----------------------------------------------------------------------------
(* Two callers whose updateById calls overlap: each call stamps its data   *)
(* and issues its storage request when it is made, and the storage         *)
(* performs the pending writes in any order.                                *)

Callers == {"X", "Y"}

\* updateById(id, data, client) by caller x, up to its await
RaceUpdate(x, id, data) ==
  /\ updates[x].pc = "idle"
  /\ updates' = [updates EXCEPT ![x] =
                   [pc |-> "pending", args |-> [id |-> id, data |-> data], at |-> now,
                    during |-> {y \in Callers : updates[y].pc = "pending"},
                    request |-> [method |-> "update", where |-> WhereClause(id), data |-> StampedData(data)],
                    outcome |-> Undef]]
  /\ UNCHANGED <<nodeEnv, now, nextRef, normVars, registryVars, repoVars, completed, svcVars>>

\* The storage performs the write of caller x, and x's call ends
RaceStorageWrites(x) ==
  /\ updates[x].pc = "pending"
  /\ LET ex == Execute(table, updates[x].request)
     IN /\ table' = ex.table
        /\ updates' = [updates EXCEPT ![x].pc = "done",
                                      ![x].outcome = IF ex.out.kind = "throw"
                                                     THEN Thrown(updateById_catch(updates[x], ex.out.error))
                                                     ELSE Returned(ex.out.value)]
  /\ completed' = Append(completed, x)
  /\ UNCHANGED <<nodeEnv, now, nextRef, normVars, registryVars, repo, call, response, svcVars>>

RaceInit ==
  /\ nodeEnv = "production"
  /\ now = 1
  /\ nextRef = 1
  /\ NormIdle
  /\ RegistryNew
  /\ repo = GenericRepository("customer")
  /\ table \in [1..MaxId -> {Null} \cup [t : {"object"}, status : Statuses, updatedAt : {Num(0), Num(1)}]]
  /\ call = [pc |-> "idle"]
  /\ response = Undef
  /\ updates = [x \in Callers |-> [pc |-> "idle"]]
  /\ completed = <<>>
  /\ ServicesIdle

RaceNext ==
  \/ \E x \in Callers, id \in 1..MaxId, data \in UpdateArgs \ {Undef} : RaceUpdate(x, Num(id), data)
  \/ \E x \in Callers : RaceStorageWrites(x)
  \/ Tick

SpecRace == RaceInit /\ [][RaceNext]_vars

\* The calls of x and y were in progress at the same time, on the same id,
\* and the storage performed both writes
Overlapped(x, y) ==
  /\ x # y
  /\ updates[x].pc = "done" /\ updates[y].pc = "done"
  /\ y \in updates[x].during \/ x \in updates[y].during
  /\ updates[x].args.id = updates[y].args.id
  /\ updates[x].outcome.kind = "return" /\ updates[y].outcome.kind = "return"

\* C18: of two overlapping updateById calls on one id, the record left in
\* the storage is the one of the call whose write completed last, and the
\* timestamps stored follow the order of completion: the timestamp of the
\* write that completed first is not later than that of the write that
\* completed second.
C18_StampsFollowCompletion ==
  \A i, j \in 1..Len(completed) :
     (i < j /\ Overlapped(completed[i], completed[j])) =>
        /\ RowAt(table, updates[completed[j]].args.id).updatedAt = updates[completed[j]].outcome.value.updatedAt
        /\ RowAt(table, updates[completed[j]].args.id).status = updates[completed[j]].args.data.status
        /\ updates[completed[i]].outcome.value.updatedAt.n <= updates[completed[j]].outcome.value.updatedAt.n

----------------------------------------------------------------------------
(* findAll over a larger table, with the requests of other callers landing *)
(* between its two storage requests.                                        *)

MaxRows == 5
MaxPage == 2
MaxLimit == 2

\* Another request writes row k (inserts, replaces or deletes it) between
\* the storage's answers to the requests of the pending call
OtherRequestWrites(k, row) ==
  /\ call.pc = "pending"
  /\ \E j \in 1..Len(call.results) : call.results[j] # Undef
  /\ ~call.raced
  /\ table[k] # row
  /\ table' = [table EXCEPT ![k] = row]
  /\ call' = [call EXCEPT !.raced = TRUE]
  /\ UNCHANGED <<nodeEnv, now, nextRef, normVars, registryVars, repo, response, raceVars, svcVars>>

PageRows == {Null, [t |-> "object", status |-> Str("ACT"), updatedAt |-> Num(0)], [t |-> "object", status |-> Str("INACTIVE"), updatedAt |-> Num(0)]}

PageOptionArgs ==
  [t : {"object"}, page : {Undef} \cup {Num(n) : n \in 1..MaxPage},
   limit : {Undef} \cup {Num(n) : n \in 1..MaxLimit}, where : WhereArgs]

PageInit ==
  /\ nodeEnv = "production"
  /\ now = 1
  /\ nextRef = 1
  /\ NormIdle
  /\ RegistryNew
  /\ repo = GenericRepository("customer")
  /\ table \in [1..MaxRows -> PageRows]
  /\ call = [pc |-> "idle"]
  /\ response = Undef
  /\ RaceIdle
  /\ ServicesIdle

PageNext ==
  \/ \E options \in PageOptionArgs, client \in ClientArgs, requestId \in RequestIds : findAll(options, client, requestId)
  \/ \E i \in 1..2, fault \in StorageFaults : StorageAnswers(i, fault)
  \/ \E k \in 1..MaxRows, row \in {Null, [t |-> "object", status |-> Str("ACT"), updatedAt |-> Num(0)]} : OtherRequestWrites(k, row)

SpecPage == PageInit /\ [][PageNext]_vars

\* The entities at positions from..to of the rows matching where
Window(tb, where, from, to) ==
  [i \in 1..(IF to >= from THEN to - from + 1 ELSE 0) |-> Entity(tb, Matching(tb, where)[from + i - 1])]

\* C3: the result of findAll for page p >= 1, limit l >= 1 and any filter
\* has totalPages = ceil(totalCount / l), hasNext = (p * l < totalCount) and
\* hasPrev = (p > 1), totalCount being the count the storage returned for
\* the filter; when no other request wrote meanwhile, its data are the
\* matching rows at positions (p-1)*l+1 .. min(p*l, totalCount).
C3_Pagination ==
  (call.pc = "done" /\ call.op = "findAll" /\ call.outcome.kind = "return") =>
     LET options == call.args.options
         p == IF options.page = Undef THEN DefaultPage ELSE options.page.n
         l == IF options.limit = Undef THEN DefaultLimit ELSE options.limit.n
         where == IF options.where = Undef THEN [t |-> "object"] ELSE options.where
         totalCount == call.results[2].n
         result == call.outcome.value
     IN /\ result.pagination.totalCount = totalCount
        /\ result.pagination.totalPages * l >= totalCount
        /\ (result.pagination.totalPages - 1) * l < totalCount
        /\ result.pagination.hasNext = (p * l < totalCount)
        /\ result.pagination.hasPrev = (p > 1)
        /\ ~call.raced =>
             /\ totalCount = Len(Matching(table, where))
             /\ result.data = Arr(Window(table, where, (p - 1) * l + 1, Min(p * l, totalCount)))

C3_Witness ==
  /\ call.pc = "done"
  /\ call.op = "findAll"
  /\ call.outcome.kind = "return"
  /\ ~call.raced
  /\ call.args.options.page = Num(1)
  /\ call.args.options.limit = Num(2)
  /\ Len(call.outcome.value.data.a) = 2
  /\ call.outcome.value.pagination =
       [page |-> 1, limit |-> 2, totalCount |-> 5, totalPages |-> 3, hasNext |-> TRUE, hasPrev |-> FALSE]


----------------------------------------------------------------------------
(* The tier queries against a storage that executes a parameterized query  *)
(* only when the bound parameters are as many as the placeholders.         *)

\* The storage did what it was asked: whatever it raised, it raised for the
\* count of the bound parameters
StorageSound(c) == c.raised = Undef \/ Get(c.raised, "code") = Str("P2010")

\* C21: each of the six tier operations, given a present identifier and a
\* present handle, returns the row sequence and does not fail with a
\* database error: every tier binds as many parameters as its query has
\* placeholders.
C21_TierBindsAllPlaceholders ==
  (call.pc = "done" /\ call.op = "tierQuery" /\ call.issued > 0 /\ StorageSound(call)) =>
     /\ call.outcome.kind = "return"
     /\ call.requests[1].parameters = call.requests[1].placeholders


----------------------------------------------------------------------------
(* The correlation id on the errors the normaliser builds.                  *)

\* C29: every Classified Error the normaliser produces from a foreign error
\* carries the request's correlation id as requestId, whichever category
\* the error was detected as.
C29_ProducedErrorCarriesRequestId ==
  (npc # "raised" /\ ~IsAppError(failure) /\ normOut.kind = "return") =>
     \A requestId \in RequestIds : normOut.value.requestId = requestId


----------------------------------------------------------------------------
(* The serialization of a Classified Error (app-error.js, toJSON), called   *)
(* with every argument in every mode of the process.                        *)

\* The modes of the process: "unset" stands for NODE_ENV not being set,
\* which differs from every mode the code compares it with
SerialEnvs == NodeEnvs \cup {"unset"}

SerialStatuses == {400, 401, 404, 500, 503}

\* new AppError(message, statusCode): the metadata defaults to {}
BareErrors ==
  { Earlier(AppError(Words(<<"failed">>), s, "", TRUE, [n \in {} |-> 0])) : s \in SerialStatuses }

\* new AppError(message, statusCode, null, true, { requestId })
TaggedErrors ==
  { Earlier(AppError(Words(<<"failed">>), s, "", TRUE, [requestId |-> Str("req-1")])) : s \in SerialStatuses }

SerialErrors == ClassifiedFailures \cup BareErrors \cup TaggedErrors

\* The arguments of toJSON: omitted (the default is false), false, true
IncludeStackArgs == {Undef, [t |-> "boolean", b |-> FALSE], [t |-> "boolean", b |-> TRUE]}

IncludeStack(arg) == IF arg = Undef THEN FALSE ELSE arg.b

SerialInit ==
  /\ nodeEnv \in SerialEnvs
  /\ now = 1
  /\ nextRef = 1
  /\ failure \in SerialErrors
  /\ normOut = Undef
  /\ normAgain = Undef
  /\ normVia = "none"
  /\ npc = "idle"
  /\ RegistryNew
  /\ RepoIdle
  /\ RaceIdle
  /\ ServicesIdle

\* failure.toJSON(arg)
Serialize(arg) ==
  /\ serialized = Undef
  /\ serialized' = [t |-> "object", includeStack |-> arg, out |-> toJSON(failure, IncludeStack(arg))]
  /\ UNCHANGED <<nodeEnv, now, nextRef, normVars, registryVars, repoVars, raceVars,
                 dbVars, secretVars, httpVars, transaction>>

SerialNext == \E arg \in IncludeStackArgs : Serialize(arg)

SpecSerial == SerialInit /\ [][SerialNext]_vars

\* C23: the serialized form of a Classified Error contains the stack only
\* when the process runs in development mode, whatever argument toJSON is
\* called with, and contains the metadata exactly when the metadata is not
\* empty.
C23_StackOnlyInDevelopment ==
  serialized # Undef =>
     /\ "stack" \in DOMAIN serialized.out.error => nodeEnv = "development"
     /\ "metadata" \in DOMAIN serialized.out.error <=> DOMAIN failure.metadata # {}


----------------------------------------------------------------------------
(* A repository operation run in a transaction: createCustomer             *)
(* (customer.service.js) hands a function calling customerRepository.create *)
(* to executeTransaction (database.service.js), which runs it with         *)
(* client.$transaction; the error that leaves createCustomer reaches the   *)
(* boundary.                                                               *)

\* The faults of the commit of a transaction whose function has returned
CommitFaults == {"", "P2028"}

\* createCustomer(customerData, requestId) up to the storage request of
\* create: executeTransaction obtains the client and $transaction calls the
\* function with the handle tx
createCustomer(customerData, requestId) == create(customerData, Client, requestId)

\* executeTransaction once $transaction has settled.  $transaction rejects
\* with what its function raised, or with the storage's error for a commit
\* that fails, and the rows are those before the transaction; the catch
\* block raises the database error it builds from whatever it caught.
executeTransaction(commitFault) ==
  /\ call.pc = "done"
  /\ call.op = "create"
  /\ transaction.pc = "idle"
  /\ LET settled == IF call.outcome.kind = "throw" THEN call.outcome
                    ELSE IF commitFault # "" THEN Thrown(PrismaError(commitFault))
                    ELSE call.outcome
         caught == [databaseError(<<"transaction", "execution">>, settled.error) EXCEPT !.ref = nextRef + 1]
     IN /\ transaction' = [pc |-> "settled", settled |-> settled,
                           outcome |-> IF settled.kind = "throw" THEN Thrown(caught) ELSE settled]
        /\ table' = IF settled.kind = "throw" THEN call.before ELSE table
        /\ nextRef' = IF settled.kind = "throw" THEN nextRef + 1 ELSE nextRef
  /\ UNCHANGED <<nodeEnv, now, normVars, registryVars, repo, call, response, raceVars,
                 dbVars, secretVars, httpVars, serialized>>

\* createCustomer once executeTransaction has settled: its catch block logs
\* and raises the error it caught
createCustomer_settles ==
  /\ transaction.pc = "settled"
  /\ transaction' = [transaction EXCEPT !.pc = "left"]
  /\ UNCHANGED <<nodeEnv, now, nextRef, normVars, registryVars, repoVars, raceVars,
                 dbVars, secretVars, httpVars, serialized>>

\* The error createCustomer raised reaches the boundary, which normalises it
TransactionBoundary ==
  /\ transaction.pc = "left"
  /\ transaction.outcome.kind = "throw"
  /\ response' = _normalizeError(transaction.outcome.error, call.args.requestId)
  /\ transaction' = [transaction EXCEPT !.pc = "done"]
  /\ UNCHANGED <<nodeEnv, now, nextRef, normVars, registryVars, repo, table, call, raceVars,
                 dbVars, secretVars, httpVars, serialized>>

TransactionInit ==
  /\ nodeEnv \in NodeEnvs
  /\ now = 1
  /\ nextRef = 1
  /\ NormIdle
  /\ RegistryNew
  /\ repo = GenericRepository("customer")
  /\ table \in [1..MaxId -> {Null} \cup [t : {"object"}, status : Statuses, updatedAt : {Num(0), Num(1)}]]
  /\ call = [pc |-> "idle"]
  /\ response = Undef
  /\ RaceIdle
  /\ ServicesIdle

TransactionNext ==
  \/ \E customerData \in CreateArgs, requestId \in RequestIds : createCustomer(customerData, requestId)
  \/ \E fault \in StorageFaults : StorageAnswers(1, fault)
  \/ \E commitFault \in CommitFaults : executeTransaction(commitFault)
  \/ createCustomer_settles
  \/ TransactionBoundary

SpecTransaction == TransactionInit /\ [][TransactionNext]_vars

\* C22: a storage failure inside an operation produces one Classified Error,
\* and that same error, with the same status, error code and metadata, is
\* what reaches the boundary: transaction execution and the customer
\* service hand on an error that is already classified.
C22_ClassifiedErrorPropagates ==
  (transaction.pc = "done" /\ call.raised # Undef) =>
     /\ response.kind = "return"
     /\ response.value.ref = call.outcome.error.ref
     /\ response.value.statusCode = call.outcome.error.statusCode
     /\ response.value.errorCode = call.outcome.error.errorCode
     /\ response.value.metadata.operation = call.outcome.error.metadata.operation


----------------------------------------------------------------------------
(* DatabaseService (database.service.js): getClient, _createConnection     *)
(* and disconnect, in every interleaving of their calls.  A function that  *)
(* awaits is one action up to the await and one action for what follows    *)
(* it.  The client _createConnection constructs carries the number of the  *)
(* attempt that constructed it.                                            *)

MaxAttempts == 3

\* The callers of the exported disconnect
Disconnecters == {"D1", "D2"}

\* The attempts that have not settled
InFlight == {a \in 1..Len(attempts) : attempts[a].pc \in {"url", "test"}}

\* disconnect has been started, or has completed, on the client
DisconnectStarted(client) ==
  \E d \in DOMAIN disconnects : disconnects[d].pc \in {"awaiting", "done"} /\ disconnects[d].client = client

\* What a getClient call received
Received(via, attempt, client) ==
  [via |-> via, attempt |-> attempt, client |-> client,
   disconnecting |-> client # 0 /\ DisconnectStarted(client)]

\* getClient(): the existing client, the pending attempt, or a new attempt.
\* _createConnection runs up to its first await, of _getDatabaseUrl.
getClient ==
  /\ IF prisma # 0 /\ isConnected
     THEN /\ lastGet' = Received("existing", 0, prisma)
          /\ UNCHANGED <<connectionPromise, attempts>>
     ELSE IF connectionPromise # 0
     THEN /\ lastGet' = Received("pending", connectionPromise, 0)
          /\ UNCHANGED <<connectionPromise, attempts>>
     ELSE /\ Len(attempts) < MaxAttempts
          /\ attempts' = Append(attempts, [pc |-> "url", client |-> 0])
          /\ connectionPromise' = Len(attempts) + 1
          /\ lastGet' = Received("fresh", Len(attempts) + 1, 0)
  /\ UNCHANGED <<nodeEnv, now, nextRef, normVars, registryVars, repoVars, raceVars,
                 prisma, isConnected, disconnects, secretVars, httpVars, transaction, serialized>>

\* The catch block of _createConnection
_createConnection_catch(a) ==
  /\ isConnected' = FALSE
  /\ connectionPromise' = 0
  /\ attempts' = [attempts EXCEPT ![a].pc = "rejected"]
  /\ UNCHANGED <<prisma, lastGet>>

\* _createConnection after _getDatabaseUrl has settled: with the URL it
\* constructs the client and starts the connectivity test with it
_createConnection_url(a, ok) ==
  /\ a \in 1..Len(attempts)
  /\ attempts[a].pc = "url"
  /\ IF ok
     THEN /\ prisma' = a
          /\ attempts' = [attempts EXCEPT ![a] = [pc |-> "test", client |-> a]]
          /\ UNCHANGED <<isConnected, connectionPromise, lastGet>>
     ELSE _createConnection_catch(a)
  /\ UNCHANGED <<nodeEnv, now, nextRef, normVars, registryVars, repoVars, raceVars,
                 disconnects, secretVars, httpVars, transaction, serialized>>

\* _createConnection after _testConnection has settled: the attempt
\* resolves with this.prisma, and those who wait for it receive that
_createConnection_test(a, ok) ==
  /\ a \in 1..Len(attempts)
  /\ attempts[a].pc = "test"
  /\ IF ok
     THEN /\ isConnected' = TRUE
          /\ connectionPromise' = 0
          /\ attempts' = [attempts EXCEPT ![a].pc = "resolved"]
          /\ lastGet' = Received("resolved", a, prisma)
          /\ UNCHANGED prisma
     ELSE _createConnection_catch(a)
  /\ UNCHANGED <<nodeEnv, now, nextRef, normVars, registryVars, repoVars, raceVars,
                 disconnects, secretVars, httpVars, transaction, serialized>>

\* disconnect() up to its await of $disconnect; it returns at once when
\* there is no connected client
disconnect(d) ==
  /\ disconnects[d].pc = "idle"
  /\ disconnects' = [disconnects EXCEPT ![d] = IF prisma # 0 /\ isConnected
                                                 THEN [pc |-> "awaiting", client |-> prisma]
                                                 ELSE [pc |-> "returned", client |-> 0]]
  /\ UNCHANGED <<nodeEnv, now, nextRef, normVars, registryVars, repoVars, raceVars,
                 prisma, isConnected, connectionPromise, attempts, lastGet,
                 secretVars, httpVars, transaction, serialized>>

\* disconnect() after $disconnect has settled
disconnect_settles(d, ok) ==
  /\ disconnects[d].pc = "awaiting"
  /\ IF ok
     THEN /\ isConnected' = FALSE
          /\ connectionPromise' = 0
          /\ prisma' = 0
          /\ disconnects' = [disconnects EXCEPT ![d].pc = "done"]
     ELSE /\ disconnects' = [disconnects EXCEPT ![d].pc = "failed"]
          /\ UNCHANGED <<isConnected, connectionPromise, prisma>>
  /\ UNCHANGED <<nodeEnv, now, nextRef, normVars, registryVars, repoVars, raceVars,
                 attempts, lastGet, secretVars, httpVars, transaction, serialized>>

DatabaseInit ==
  /\ nodeEnv = "production"
  /\ now = 1
  /\ nextRef = 1
  /\ NormIdle
  /\ RegistryNew
  /\ RepoIdle
  /\ RaceIdle
  /\ prisma = 0
  /\ isConnected = FALSE
  /\ connectionPromise = 0
  /\ attempts = <<>>
  /\ disconnects = [d \in Disconnecters |-> [pc |-> "idle", client |-> 0]]
  /\ lastGet = Undef
  /\ SecretsNew
  /\ ResponseIdle
  /\ TransactionIdle
  /\ SerializedNone

DatabaseNext ==
  \/ getClient
  \/ \E a \in 1..MaxAttempts, ok \in BOOLEAN : _createConnection_url(a, ok)
  \/ \E a \in 1..MaxAttempts, ok \in BOOLEAN : _createConnection_test(a, ok)
  \/ \E d \in Disconnecters : disconnect(d)
  \/ \E d \in Disconnecters, ok \in BOOLEAN : disconnect_settles(d, ok)

SpecDatabase == DatabaseInit /\ [][DatabaseNext]_vars

\* C24: at any time at most one connection attempt is in flight: a
\* getClient call made while an attempt is pending receives that attempt
\* and starts no other, and while the service is connected every getClient
\* receives the one client of the service.
C24_OneAttemptInFlight ==
  /\ Cardinality(InFlight) <= 1
  /\ InFlight # {} => connectionPromise \in InFlight
  /\ (lastGet # Undef /\ lastGet.via = "pending") => lastGet.attempt \in 1..Len(attempts)

\* C26: when a connection attempt fails, the service is left not connected
\* and with no attempt in flight, and the failed attempt is not kept as the
\* pending attempt: the next getClient starts a fresh attempt, and never
\* receives the result of a failed attempt or the client of one, which did
\* not pass the connectivity test.
C26_FailedAttemptIsNotKept ==
  [][/\ (\E a \in 1..Len(attempts) : attempts[a].pc # "rejected" /\ attempts'[a].pc = "rejected") =>
          /\ ~isConnected'
          /\ connectionPromise' = 0
          /\ InFlight' = {}
     /\ (lastGet' # lastGet /\ connectionPromise = 0 /\ ~isConnected /\ Len(attempts) < MaxAttempts) =>
          lastGet'.via \in {"fresh", "resolved"}
     /\ (lastGet' # lastGet /\ lastGet'.attempt # 0) => attempts'[lastGet'.attempt].pc # "rejected"
     /\ (lastGet' # lastGet /\ lastGet'.client # 0) => attempts'[lastGet'.client].pc # "rejected"]_vars

\* C27: in every interleaving of getClient and disconnect, a client that
\* getClient returns is connected when it is returned: disconnect has
\* neither been started nor completed on it.
C27_ReturnedClientIsConnected ==
  (lastGet # Undef /\ lastGet.via \in {"existing", "resolved"}) =>
     /\ lastGet.client # 0
     /\ ~lastGet.disconnecting


----------------------------------------------------------------------------
(* SecretsService (secrets.service.js): getSecret, its cache with the      *)
(* cleanup timer of _cacheSecret, and getDatabaseCredentials.  The text of *)
(* a secret is a sequence of <<key, value>> pairs; JSON.parse turns it     *)
(* into an object.                                                         *)

\* technical.config.js, aws.secretsManager.cacheTtlMs
cacheTtlMs == 300000

\* The clock advances by half the TTL, MaxTicks times
MaxTicks == 4

SecretNameArgs == {"", "db"}

CompleteSecret ==
  <<<<"username", "app">>, <<"password", "pw">>, <<"engine", "postgres">>,
    <<"host", "db.internal">>, <<"port", "5432">>, <<"dbname", "leasing">>>>

\* The secret rotated: another password
RotatedSecret ==
  <<<<"username", "app">>, <<"password", "pw2">>, <<"engine", "postgres">>,
    <<"host", "db.internal">>, <<"port", "5432">>, <<"dbname", "leasing">>>>

\* A secret without password and port
IncompleteSecret ==
  <<<<"username", "app">>, <<"engine", "postgres">>, <<"host", "db.internal">>, <<"dbname", "leasing">>>>

\* What the secrets manager answers: a response with a SecretString, a
\* response without one (a binary secret), or an error
SecretAnswers ==
  {[kind |-> "response", SecretString |-> s] : s \in {CompleteSecret, RotatedSecret, IncompleteSecret}}
    \cup {[kind |-> "response", SecretString |-> <<>>], [kind |-> "error", SecretString |-> <<>>]}

\* JSON.parse(response.SecretString)
JSONparse(text) ==
  [k \in {text[i][1] : i \in 1..Len(text)} |->
     text[CHOOSE i \in 1..Len(text) : text[i][1] = k /\ \A j \in (i+1)..Len(text) : text[j][1] # k][2]]

requiredFields == <<"username", "password", "engine", "host", "port", "dbname">>

\* requiredFields.filter(field => !secret[field]): a property that is an
\* object or a number other than 0 is truthy, a missing property or an
\* empty string is not
missingFields(secret) ==
  SelectSeq(requiredFields, LAMBDA f : f \notin DOMAIN secret \/ secret[f] = "")

\* getDatabaseCredentials once getSecret has returned secret
Credentials(secretName, secret) ==
  IF Len(missingFields(secret)) > 0
  THEN Thrown(validationError(Str("databaseSecret"), Str(secretName),
                              Words(<<"Missing", "required", "fields:">> \o missingFields(secret))))
  ELSE Returned([username |-> secret.username, password |-> secret.password, host |-> secret.host,
                 port |-> secret.port, database |-> secret.dbname, engine |-> secret.engine])

\* What the operation makes of the outcome of its getSecret call
SecretOutcome(op, secretName, got) ==
  IF op = "getDatabaseCredentials" /\ got.kind = "return" THEN Credentials(secretName, got.value) ELSE got

\* getSecret(secretName, forceRefresh), called by itself (op getSecret) or
\* by getDatabaseCredentials (forceRefresh false), up to its await of
\* client.send: it fails for a missing name, returns what the Map holds for
\* the name, or sends the command
getSecret(op, secretName, forceRefresh) ==
  /\ secretCall.pc \in {"idle", "done"}
  /\ secretCall' =
       IF secretName = ""
       THEN [pc |-> "done", op |-> op, secretName |-> secretName, hit |-> FALSE, at |-> now,
             outcome |-> Thrown(validationError(Str("secretName"), Str(secretName),
                                                Words(<<"Secret", "name", "is", "required">>)))]
       ELSE IF ~forceRefresh /\ Has(secretCache, secretName)
       THEN [pc |-> "done", op |-> op, secretName |-> secretName, hit |-> TRUE, at |-> now,
             outcome |-> SecretOutcome(op, secretName, Returned(secretCache[secretName]))]
       ELSE [pc |-> "fetching", op |-> op, secretName |-> secretName, hit |-> FALSE, at |-> now,
             outcome |-> Undef]
  /\ UNCHANGED <<nodeEnv, now, nextRef, normVars, registryVars, repoVars, raceVars,
                 dbVars, secretCache, timers, fetched, httpVars, transaction, serialized>>

\* getSecret after client.send has settled: with a SecretString it parses
\* the secret, caches it (_cacheSecret sets the entry and schedules the
\* cleanup) and returns it; its catch block raises the errors
SecretsManagerAnswers(answer) ==
  /\ secretCall.pc = "fetching"
  /\ LET secretName == secretCall.secretName
         secretValue == JSONparse(answer.SecretString)
         failed == answer.kind = "error" \/ answer.SecretString = <<>>
         got == IF failed
                THEN Thrown(externalServiceError("SecretsManager", <<"getSecret">>, Null))
                ELSE Returned(secretValue)
     IN /\ secretCache' = IF failed THEN secretCache
                          ELSE MapSet(secretCache, secretName, [value |-> secretValue, expiryTime |-> now + cacheTtlMs])
        /\ timers' = IF failed THEN timers ELSE timers \cup {[secretName |-> secretName, due |-> now + cacheTtlMs]}
        /\ fetched' = IF failed THEN fetched ELSE MapSet(fetched, secretName, secretValue)
        /\ secretCall' = [secretCall EXCEPT !.pc = "done", !.outcome = SecretOutcome(secretCall.op, secretName, got)]
  /\ UNCHANGED <<nodeEnv, now, nextRef, normVars, registryVars, repoVars, raceVars,
                 dbVars, httpVars, transaction, serialized>>

\* The callback _cacheSecret scheduled runs, not before its delay has passed
CleanupTimerFires(timer) ==
  /\ timer \in timers
  /\ now >= timer.due
  /\ timers' = timers \ {timer}
  /\ secretCache' = IF Has(secretCache, timer.secretName) /\ secretCache[timer.secretName].expiryTime <= now
                    THEN MapDelete(secretCache, timer.secretName)
                    ELSE secretCache
  /\ UNCHANGED <<nodeEnv, now, nextRef, normVars, registryVars, repoVars, raceVars,
                 dbVars, secretCall, fetched, httpVars, transaction, serialized>>

\* The clock advances by half the TTL
SecretsTick ==
  /\ now < 1 + MaxTicks * (cacheTtlMs \div 2)
  /\ now' = now + cacheTtlMs \div 2
  /\ UNCHANGED <<nodeEnv, nextRef, normVars, registryVars, repoVars, raceVars, svcVars>>

SecretsInit ==
  /\ nodeEnv = "production"
  /\ now = 1
  /\ nextRef = 1
  /\ NormIdle
  /\ RegistryNew
  /\ RepoIdle
  /\ RaceIdle
  /\ ServicesIdle

SecretsNext ==
  \/ \E secretName \in SecretNameArgs, forceRefresh \in BOOLEAN : getSecret("getSecret", secretName, forceRefresh)
  \/ \E secretName \in SecretNameArgs : getSecret("getDatabaseCredentials", secretName, FALSE)
  \/ \E answer \in SecretAnswers : SecretsManagerAnswers(answer)
  \/ \E timer \in timers : CleanupTimerFires(timer)
  \/ SecretsTick

SpecSecrets == SecretsInit /\ [][SecretsNext]_vars

\* C25: getSecret returns the parsed secret both when it fetches it and when
\* it serves it from the cache: a call served from the cache returns what
\* the fetch that cached the secret returned, and getDatabaseCredentials
\* succeeds on a cache hit exactly when it succeeds on that value.
C25_CacheHitReturnsSecret ==
  (secretCall.pc = "done" /\ secretCall.hit) =>
     IF secretCall.op = "getSecret"
     THEN /\ secretCall.outcome.kind = "return"
          /\ DOMAIN secretCall.outcome.value = DOMAIN fetched[secretCall.secretName]
          /\ secretCall.outcome.value = fetched[secretCall.secretName]
     ELSE secretCall.outcome.kind = Credentials(secretCall.secretName, fetched[secretCall.secretName]).kind

\* C28: getSecret never returns a cached secret whose expiry time has
\* passed, whether the cleanup timer has run by then or not, and the
\* cleanup timer removes no entry whose expiry time has not come.
C28_ExpiredEntryIsNotServed ==
  [][/\ (secretCall' # secretCall /\ secretCall'.pc = "done" /\ secretCall'.hit) =>
          secretCache[secretCall'.secretName].expiryTime >= now
     /\ \A n \in DOMAIN secretCache \ DOMAIN secretCache' : secretCache[n].expiryTime <= now]_vars


----------------------------------------------------------------------------
(* The parties that can respond to one request: the callback of the        *)
(* request timeout (app-factory.service.js), the controller on its success *)
(* path and on its error path (customer.controller.js) and the global      *)
(* error handler (error-handler.middleware.js).  Each callback runs to its *)
(* end before another starts.                                              *)

Routes == {"createCustomer", "downloadAccountsByUserId"}
Parties == {"timeout", "controller", "handler"}

\* A response object that sends whatever the state of its headers
json_afterHeaders(r, by, status) ==
  [res |-> [headersSent |-> TRUE, sent |-> Append(r.sent, [by |-> by, status |-> status])], raised |-> FALSE]

\* res.status(status).json(body), and res.setHeader(...) followed by
\* res.send(body): the response is sent and its headers are marked sent;
\* once the headers are sent, setting a header raises
\* ERR_HTTP_HEADERS_SENT and nothing is sent
json(r, by, status) ==
  IF r.headersSent THEN [res |-> r, raised |-> TRUE]
  ELSE [res |-> [headersSent |-> TRUE, sent |-> Append(r.sent, [by |-> by, status |-> status])], raised |-> FALSE]

\* The party has reached the place where it responds
Tried(party) ==
  [responders EXCEPT !.pc[party] = "done", !.tried = Append(responders.tried, party)]

\* The callback of req.setTimeout
TimeoutFires ==
  /\ responders.pc["timeout"] = "pending"
  /\ res' = IF ~res.headersSent THEN json(res, "timeout", Num(408)).res ELSE res
  /\ responders' = Tried("timeout")
  /\ UNCHANGED <<nodeEnv, now, nextRef, normVars, registryVars, repoVars, raceVars,
                 dbVars, secretVars, transaction, serialized>>

\* CustomerController._handleError(error, res, requestId, operation)
_handleError(r, error) ==
  IF r.headersSent THEN r
  ELSE IF IsAppError(error) THEN json(r, "controller", error.statusCode).res
  ELSE json(r, "controller", Num(500)).res

\* The catch block of downloadAccountsByUserId
downloadAccountsByUserId_catch(r, error) ==
  IF ~r.headersSent THEN json(r, "controller", Num(500)).res ELSE r

\* The controller after its service call has returned: createCustomer sends
\* 201 and downloadAccountsByUserId's service sends the file; what the
\* sending raises is caught by the catch block of the controller
ControllerSucceeds ==
  /\ responders.pc["controller"] = "pending"
  /\ LET route == responders.route
         attempt == json(res, "controller", Num(IF route = "createCustomer" THEN 201 ELSE 200))
     IN res' = IF ~attempt.raised THEN attempt.res
               ELSE IF route = "createCustomer" THEN _handleError(res, TypeError)
               ELSE downloadAccountsByUserId_catch(res, TypeError)
  /\ responders' = Tried("controller")
  /\ UNCHANGED <<nodeEnv, now, nextRef, normVars, registryVars, repoVars, raceVars,
                 dbVars, secretVars, transaction, serialized>>

\* The controller after its service call has raised failure
ControllerFails ==
  /\ responders.pc["controller"] = "pending"
  /\ res' = IF responders.route = "createCustomer" THEN _handleError(res, failure)
            ELSE downloadAccountsByUserId_catch(res, failure)
  /\ responders' = Tried("controller")
  /\ UNCHANGED <<nodeEnv, now, nextRef, normVars, registryVars, repoVars, raceVars,
                 dbVars, secretVars, transaction, serialized>>

\* ErrorHandler._sendErrorResponse(appError, res, requestId)
_sendErrorResponse(r, appError) ==
  IF r.headersSent THEN r ELSE json(r, "handler", appError.statusCode).res

\* ErrorHandler.handle(error, req, res, next) with failure; when the
\* normaliser raises, handle ends before it responds
GlobalHandler ==
  /\ responders.pc["handler"] = "pending"
  /\ \E requestId \in RequestIds :
       LET appError == _normalizeError(failure, requestId)
       IN IF appError.kind = "throw"
          THEN /\ responders' = [responders EXCEPT !.pc["handler"] = "raised"]
               /\ res' = res
          ELSE /\ responders' = Tried("handler")
               /\ res' = _sendErrorResponse(res, appError.value)
  /\ UNCHANGED <<nodeEnv, now, nextRef, normVars, registryVars, repoVars, raceVars,
                 dbVars, secretVars, transaction, serialized>>

ResponseInit ==
  /\ nodeEnv \in NodeEnvs
  /\ now = 1
  /\ nextRef = 1
  /\ failure \in ClassifiedFailures \cup TransportFailures
  /\ normOut = Undef
  /\ normAgain = Undef
  /\ normVia = "none"
  /\ npc = "idle"
  /\ RegistryNew
  /\ RepoIdle
  /\ RaceIdle
  /\ DatabaseNew
  /\ SecretsNew
  /\ res = [headersSent |-> FALSE, sent |-> <<>>]
  /\ responders \in [route : Routes, pc : {[p \in Parties |-> "pending"]}, tried : {<<>>}]
  /\ TransactionIdle
  /\ SerializedNone

ResponseNext ==
  \/ TimeoutFires
  \/ ControllerSucceeds
  \/ ControllerFails
  \/ GlobalHandler

SpecResponse == ResponseInit /\ [][ResponseNext]_vars

=============================================================================
